---- MODULE Spec2Model ----
(***************************************************************************)
(* A model of httprunner/parser.py: the template scanner, the lazy value   *)
(* model (LazyString / LazyFunction), the preparer and the evaluator, the  *)
(* variable resolver, and the test-case / test-suite drivers.              *)
(*                                                                         *)
(* Python strings are sequences of one-character strings, so that the      *)
(* regular expressions, str.index, str.replace, str.split and str.format   *)
(* are computed character by character as the code computes them.         *)
(* Python values are tagged records [k |-> tag, v |-> payload].            *)
(***************************************************************************)
EXTENDS Integers, Sequences, FiniteSets, TLC

VARIABLES
    pc,                        \* position of the operation under way
    content,                   \* prepare_lazy_data: the raw content
    prepared,                  \* what prepare_lazy_data returned for content
    functions_mapping,         \* template function name -> callable (__name__)
    check_variables_set,       \* the known-variables set of a preparation
    variables_mapping,         \* ordered (name, value) pairs
    ignore,                    \* parse_variables_mapping's flag
    parsed_variables_mapping,  \* parse_variables_mapping's result under construction
    var_idx,                   \* position of the for loop over variables_mapping
    result,                    \* the value returned, or the exception raised
    cached_functions_mapping,  \* module global: cache key -> value
    ncalls,                    \* invocations of callables so far
    lazy_values,               \* LazyString objects that live across evaluations
    returned,                  \* what each evaluation of a lazy value returned
    project_variables,         \* project_mapping["variables"]
    config,                    \* the prepared config of the test case under way
    tests,                     \* the teststeps of the test case under way
    test_idx,                  \* position of the for loop over tests
    session_variables,         \* names extracted by the teststeps so far
    prepared_testcase_tests,   \* the teststeps prepared so far
    testsuite_config,          \* the prepared config of the test suite
    testcases,                 \* the child entries of the test suite, in order
    testcase_idx,              \* position of the for loop over testcases
    parsed_testcase_list       \* the test cases the suite has emitted so far

vars == <<pc, content, prepared, functions_mapping, check_variables_set, variables_mapping,
          ignore, parsed_variables_mapping, var_idx, result,
          cached_functions_mapping, ncalls, lazy_values, returned, project_variables,
          config, tests, test_idx, session_variables, prepared_testcase_tests,
          testsuite_config, testcases, testcase_idx, parsed_testcase_list>>

prepareVars == <<content, prepared, check_variables_set>>
resolverVars == <<ignore, parsed_variables_mapping, var_idx>>
evalVars == <<cached_functions_mapping, ncalls>>
cacheVars == <<lazy_values, returned>>
stepVars == <<config, tests, test_idx, session_variables, prepared_testcase_tests>>
suiteVars == <<project_variables, testsuite_config, testcases, testcase_idx,
               parsed_testcase_list>>

----------------------------------------------------------------------------
(* Characters and Python's str operations *)

Digits == <<"0", "1", "2", "3", "4", "5", "6", "7", "8", "9">>
DigitChars == {Digits[i] : i \in 1..Len(Digits)}
LetterChars == {"a", "b", "c", "d", "e", "f", "g", "h", "i", "j", "k", "l", "m",
                "n", "o", "p", "q", "r", "s", "t", "u", "v", "w", "x", "y", "z",
                "A", "B", "C", "D", "E", "F", "G", "H", "I", "J", "K", "L", "M",
                "N", "O", "P", "Q", "R", "S", "T", "U", "V", "W", "X", "Y", "Z", "_"}
\* \w of variable_regex_compile and function_regex_compile
WordChars == LetterChars \cup DigitChars
\* [\$\w\.\-/\s=,] of function_regex_compile
ArgChars == WordChars \cup {"$", ".", "-", "/", " ", "=", ","}

DigitVal(c) == CHOOSE d \in 0..9 : Digits[d + 1] = c

RECURSIVE NatToStr(_)
NatToStr(n) == IF n < 10 THEN <<Digits[n + 1]>>
               ELSE NatToStr(n \div 10) \o <<Digits[(n % 10) + 1]>>
IntToStr(n) == IF n < 0 THEN <<"-">> \o NatToStr(0 - n) ELSE NatToStr(n)

RECURSIVE StrToNat(_)
StrToNat(s) == IF Len(s) = 0 THEN 0
               ELSE 10 * StrToNat(SubSeq(s, 1, Len(s) - 1)) + DigitVal(s[Len(s)])

AllDigits(s) == Len(s) > 0 /\ \A i \in 1..Len(s) : s[i] \in DigitChars

\* s[i..] starts with sub
StartsAt(s, sub, i) ==
    /\ i >= 1
    /\ i + Len(sub) - 1 <= Len(s)
    /\ SubSeq(s, i, i + Len(sub) - 1) = sub

\* the least element of a non-empty set of integers, 0 for the empty set
MinOrZero(S) == IF S = {} THEN 0 ELSE CHOOSE i \in S : \A j \in S : i <= j

\* the elements of a sequence
Range(seq) == {seq[i] : i \in 1..Len(seq)}

\* str.find(sub, start), 1-based; 0 when sub does not occur at or after start
Find(s, sub, start) == MinOrZero({i \in start..Len(s) : StartsAt(s, sub, i)})

\* s with the old text of length n at position p (0: nowhere) replaced by new
ReplaceAt(s, p, n, new) ==
    IF p = 0 THEN s ELSE SubSeq(s, 1, p - 1) \o new \o SubSeq(s, p + n, Len(s))

\* str.replace(old, new, 1)
ReplaceFirst(s, old, new) == ReplaceAt(s, Find(s, old, 1), Len(old), new)

RECURSIVE LStrip(_)
LStrip(s) == IF Len(s) > 0 /\ s[1] = " " THEN LStrip(Tail(s)) ELSE s
RECURSIVE RStrip(_)
RStrip(s) == IF Len(s) > 0 /\ s[Len(s)] = " " THEN RStrip(SubSeq(s, 1, Len(s) - 1)) ELSE s
\* str.strip()
Strip(s) == RStrip(LStrip(s))

RECURSIVE Split(_, _)
\* s cut at position p of the separator (0: no separator left)
SplitAt(s, sep, p) ==
    IF p = 0 THEN <<s>>
    ELSE <<SubSeq(s, 1, p - 1)>> \o Split(SubSeq(s, p + 1, Len(s)), sep)

\* str.split(sep) for a one-character separator
Split(s, sep) == SplitAt(s, sep, Find(s, <<sep>>, 1))

RECURSIVE Join(_, _)
Join(parts, sep) ==
    IF Len(parts) = 0 THEN <<>>
    ELSE IF Len(parts) = 1 THEN parts[1]
    ELSE parts[1] \o sep \o Join(Tail(parts), sep)

----------------------------------------------------------------------------
(* Values *)

VNone == [k |-> "none", v |-> 0]
VInt(n) == [k |-> "int", v |-> n]
VBool(b) == [k |-> "bool", v |-> b]
VStr(s) == [k |-> "str", v |-> s]
VList(xs) == [k |-> "list", v |-> xs]
\* a dict: its items in insertion order
VDict(items) == [k |-> "dict", v |-> items]
Item(key, val) == [key |-> key, val |-> val]
\* an exception raised instead of a value returned
Err(kind, arg) == [k |-> "err", v |-> [kind |-> kind, arg |-> arg]]
IsErr(x) == x.k = "err"
IsErrKind(x, kind) == x.k = "err" /\ x.v.kind = kind

\* position of the first exception in a sequence of outcomes, 0 when none
FirstErr(xs) == MinOrZero({i \in 1..Len(xs) : IsErr(xs[i])})

\* the sequence of values, or the first exception among them
AllOrFirstErr(xs, first) == IF first > 0 THEN xs[first] ELSE VList(xs)

----------------------------------------------------------------------------
(* Token scanner: variable_regex_compile and function_regex_compile *)

\* last position of the run of characters of `class` that starts at i (i - 1: no run)
RECURSIVE RunEnd(_, _, _)
RunEnd(s, i, class) ==
    IF i <= Len(s) /\ s[i] \in class THEN RunEnd(s, i + 1, class) ELSE i - 1

VarMatchEndAt(s, i, e) == IF i <= Len(s) /\ s[i] = "$" /\ e >= i + 1 THEN e ELSE 0

\* \$(\w+) matched at i: the last position of the match, 0 when there is none
VarMatchEnd(s, i) == VarMatchEndAt(s, i, RunEnd(s, i + 1, WordChars))

NoMatch == [end |-> 0, name |-> <<>>, args |-> <<>>]

\* the function pattern at i, the name ending at w and the argument text at a
FuncMatchAt(s, i, w, a) ==
    IF /\ i + 1 <= Len(s)
       /\ s[i] = "$"
       /\ s[i + 1] = "{"
       /\ w >= i + 2
       /\ w + 1 <= Len(s)
       /\ s[w + 1] = "("
       /\ a + 2 <= Len(s)
       /\ s[a + 1] = ")"
       /\ s[a + 2] = "}"
    THEN [end |-> a + 2, name |-> SubSeq(s, i + 2, w), args |-> SubSeq(s, w + 2, a)]
    ELSE NoMatch

FuncMatchName(s, i, w) == FuncMatchAt(s, i, w, RunEnd(s, w + 2, ArgChars))

\* \$\{(\w+)\(([\$\w\.\-/\s=,]*)\)\} matched at i: [end, name, args], end = 0
\* when there is none. ( is no word character and ) no argument character, so
\* the greedy runs are the only way to match.
FuncMatch(s, i) == FuncMatchName(s, i, RunEnd(s, i + 2, WordChars))

RECURSIVE FindallVariablesFrom(_, _)
FindallVariablesAt(s, i, e) ==
    IF e > 0 THEN <<SubSeq(s, i + 1, e)>> \o FindallVariablesFrom(s, e + 1)
    ELSE FindallVariablesFrom(s, i + 1)

FindallVariablesFrom(s, i) ==
    IF i > Len(s) THEN <<>> ELSE FindallVariablesAt(s, i, VarMatchEnd(s, i))

\* the names of the $var occurrences of a string, left to right
regex_findall_variables(s) == FindallVariablesFrom(s, 1)

RECURSIVE FindallFunctionsFrom(_, _)
FindallFunctionsAt(s, i, m) ==
    IF m.end > 0 THEN <<m>> \o FindallFunctionsFrom(s, m.end + 1)
    ELSE FindallFunctionsFrom(s, i + 1)

FindallFunctionsFrom(s, i) ==
    IF i > Len(s) THEN <<>> ELSE FindallFunctionsAt(s, i, FuncMatch(s, i))

\* the (name, args) of the ${func(args)} occurrences of a string, left to right
regex_findall_functions(s) == FindallFunctionsFrom(s, 1)

is_variable_exist(s) == \E i \in 1..Len(s) : VarMatchEnd(s, i) > 0
is_function_exist(s) == \E i \in 1..Len(s) : FuncMatch(s, i).end > 0

----------------------------------------------------------------------------
(* Argument parser *)

\* the integer a decimal text spells, sign applied
SignedInt(s, body, sign) ==
    IF AllDigits(body) /\ (Len(body) = 1 \/ body[1] # "0" \/ StrToNat(body) = 0)
    THEN VInt(sign * StrToNat(body))
    ELSE IF s = <<"N", "o", "n", "e">> THEN VNone
    ELSE VStr(s)

\* ast.literal_eval on the text of one argument: a decimal integer (Python 3
\* refuses a leading zero on a non-zero number) and None evaluate; everything
\* else that LetterChars and the argument alphabet can spell without a "."
\* (names, $var, a/b, empty text) raises ValueError or SyntaxError, and the
\* text is kept as a string.
parse_string_value(s) ==
    IF Len(s) > 0 /\ s[1] = "-" THEN SignedInt(s, Tail(s), 0 - 1) ELSE SignedInt(s, s, 1)

\* dict[key] = val: a key already there keeps its place and takes the new value
DictSet(items, key, val) ==
    IF \E i \in 1..Len(items) : items[i].key = key
    THEN [i \in 1..Len(items) |->
             IF items[i].key = key THEN Item(key, val) ELSE items[i]]
    ELSE Append(items, Item(key, val))

RECURSIVE ParseArgsList(_, _)
\* one fragment of the argument text: arg stripped, kv its split at "="
ParseArg(args_list, meta, arg, kv) ==
    IF \E i \in 1..Len(arg) : arg[i] = "="
    THEN IF Len(kv) # 2
         THEN Err("ValueError", arg)      \* key, value = arg.split('=')
         ELSE ParseArgsList(Tail(args_list),
                [meta EXCEPT !.kwargs =
                    DictSet(@, Strip(kv[1]), parse_string_value(Strip(kv[2])))])
    ELSE ParseArgsList(Tail(args_list),
                [meta EXCEPT !.args = Append(@, parse_string_value(arg))])

\* the for loop of parse_function_params over args_list, from meta on
ParseArgsList(args_list, meta) ==
    IF Len(args_list) = 0 THEN meta
    ELSE ParseArg(args_list, meta, Strip(args_list[1]), Split(Strip(args_list[1]), "="))

EmptyMeta == [k |-> "meta", args |-> <<>>, kwargs |-> <<>>]

\* [k, args, kwargs]: args a sequence of values, kwargs a sequence of items
\* whose keys are strings
parse_function_params(params) ==
    IF Strip(params) = <<>> THEN EmptyMeta
    ELSE ParseArgsList(Split(Strip(params), ","), EmptyMeta)

----------------------------------------------------------------------------
(* Function registry *)

\* __name__ of loader.load_csv_file and of utils.get_os_environ
load_csv_file == <<"c", "s", "v">>
get_os_environ == <<"e", "n", "v">>
\* the names get_mapping_function reserves
ParameterizeNames == {<<"p", "a", "r", "a", "m", "e", "t", "e", "r", "i", "z", "e">>, <<"P">>}
EnvironNames == {<<"e", "n", "v", "i", "r", "o", "n">>, <<"E", "N", "V">>}
\* loader.load_builtin_functions(): the framework's helpers, by name
built_in_functions == {<<"g", "e", "n">>}
\* names that eval() finds callable in the module's namespace (Python built-ins)
PythonCallables == {<<"i", "d">>, <<"i", "n", "t">>}
\* names that eval() finds, not callable: the modules parser.py imports
PythonNonCallables == {<<"r", "e">>, <<"o", "s">>}

\* eval(function_name) of get_mapping_function, for a name matching \w+
PyEval(function_name) ==
    IF function_name \in PythonCallables THEN "callable"
    ELSE IF function_name \in PythonNonCallables \/ AllDigits(function_name)
    THEN "not callable"
    ELSE IF function_name[1] \in DigitChars THEN "SyntaxError"
    ELSE "NameError"

\* fm: a function from template names to callables (a callable is its __name__)
get_mapping_function(function_name, fm) ==
    IF function_name \in DOMAIN fm THEN VStr(fm[function_name])
    ELSE IF function_name \in ParameterizeNames THEN VStr(load_csv_file)
    ELSE IF function_name \in EnvironNames THEN VStr(get_os_environ)
    ELSE IF function_name \in built_in_functions THEN VStr(function_name)
    ELSE CASE PyEval(function_name) = "callable" -> VStr(function_name)
           [] PyEval(function_name) = "not callable" -> VNone   \* falls off the end
           [] PyEval(function_name) = "SyntaxError" -> Err("SyntaxError", function_name)
           [] OTHER -> Err("FunctionNotFound", function_name)

----------------------------------------------------------------------------
(* Lazy value model and preparer *)

\* an argument slot of a LazyString that names a variable
VarRef(name) == [k |-> "var", v |-> name]
LazyFunction(func, args, kwargs) ==
    [k |-> "func", v |-> [func |-> func, args |-> args, kwargs |-> kwargs,
                          cache_key |-> VNone]]
LazyString(raw_string, string, args, cached) ==
    [k |-> "lazy", v |-> [raw_string |-> raw_string, string |-> string,
                          args |-> args, cached |-> cached]]
IsLazyString(x) == x.k = "lazy"

RECURSIVE SortedValues(_)
SortedValuesFrom(args_mapping, lo) ==
    <<args_mapping[lo]>> \o
    SortedValues([p \in DOMAIN args_mapping \ {lo} |-> args_mapping[p]])

\* [args_mapping[key] for key in sorted(args_mapping.keys())]
SortedValues(args_mapping) ==
    IF DOMAIN args_mapping = {} THEN <<>>
    ELSE SortedValuesFrom(args_mapping, MinOrZero(DOMAIN args_mapping))

\* args_mapping[key] = val
MapSet(m, key, val) == [p \in DOMAIN m \cup {key} |-> IF p = key THEN val ELSE m[p]]

RECURSIVE prepare_lazy_data(_, _, _, _)
RECURSIVE ParseFunctions(_, _, _, _, _)
RECURSIVE ParseVariables(_, _, _, _, _)

\* the checks of LazyFunction.__parse once the callable is looked up and the
\* arguments are prepared; the exceptions in the order the code raises them
LazyFunctionChecked(func_name, func, args, kwargs) ==
    IF IsErr(func) THEN func
    ELSE IF IsErr(args) THEN args
    ELSE IF IsErr(kwargs) THEN kwargs
    ELSE IF func.k = "none" THEN Err("AttributeError", func_name)   \* None.__name__
    ELSE IF func.v \in {load_csv_file, get_os_environ}
            /\ (Len(args.v) # 1 \/ Len(kwargs.v) # 0)
    THEN Err("ParamsError", func.v)
    ELSE LazyFunction(func.v, args, kwargs)

\* the kwargs of a function_meta as a dict with string keys
KwargsDict(kwargs) == VDict([i \in 1..Len(kwargs) |-> Item(VStr(kwargs[i].key), kwargs[i].val)])

\* LazyFunction.__init__ / __parse: the LazyFunction or the exception raised
LazyFunction_parse(function_meta, fm, cvs) ==
    LazyFunctionChecked(function_meta.func_name,
                        get_mapping_function(function_meta.func_name, fm),
                        prepare_lazy_data(VList(function_meta.args), fm, cvs, FALSE),
                        prepare_lazy_data(KwargsDict(function_meta.kwargs), fm, cvs, FALSE))

ParseState(string, args_mapping, pos) ==
    [k |-> "st", string |-> string, args_mapping |-> args_mapping, pos |-> pos]

\* one round of the first loop, lazy_func being the LazyFunction built
ParseFunctionDone(rest, raw_string, st, fm, cvs, func_str, match_start_position, params, lazy_func) ==
    IF match_start_position = 0 THEN Err("ValueError", func_str)   \* str.index
    ELSE IF IsErr(params) THEN params
    ELSE IF IsErr(lazy_func) THEN lazy_func
    ELSE ParseFunctions(rest, raw_string,
            ParseState(ReplaceFirst(st.string, func_str, <<"{", "}">>),
                       MapSet(st.args_mapping, match_start_position, lazy_func),
                       match_start_position),
            fm, cvs)

ParseFunctionWith(func_match, rest, raw_string, st, fm, cvs, func_str, params) ==
    ParseFunctionDone(rest, raw_string, st, fm, cvs, func_str,
                      Find(raw_string, func_str, st.pos), params,
                      LazyFunction_parse([func_name |-> func_match.name,
                                          args |-> params.args,
                                          kwargs |-> params.kwargs], fm, cvs))

\* "${%s(%s)}" % (func_match[0], func_match[1])
FuncStr(func_match) ==
    <<"$", "{">> \o func_match.name \o <<"(">> \o func_match.args \o <<")", "}">>

\* the first for loop of LazyString.__parse, from the state st =
\* [string, args_mapping, pos] on, over what is left of func_match_list
ParseFunctions(func_match_list, raw_string, st, fm, cvs) ==
    IF Len(func_match_list) = 0 THEN st
    ELSE ParseFunctionWith(func_match_list[1], Tail(func_match_list), raw_string, st,
                           fm, cvs, FuncStr(func_match_list[1]),
                           parse_function_params(func_match_list[1].args))

\* one round of the second loop
ParseVariableAt(var_name, rest, raw_string, st, fm, cvs, match_start_position) ==
    IF var_name \notin cvs THEN Err("VariableNotFound", var_name)
    ELSE IF match_start_position = 0 THEN Err("ValueError", var_name)   \* str.index
    ELSE ParseVariables(rest, raw_string,
            ParseState(ReplaceFirst(st.string, <<"$">> \o var_name, <<"{", "}">>),
                       MapSet(st.args_mapping, match_start_position, VarRef(var_name)),
                       match_start_position),
            fm, cvs)

\* the second for loop of LazyString.__parse, over what is left of var_match_list
ParseVariables(var_match_list, raw_string, st, fm, cvs) ==
    IF Len(var_match_list) = 0 THEN st
    ELSE ParseVariableAt(var_match_list[1], Tail(var_match_list), raw_string, st, fm, cvs,
                         Find(raw_string, <<"$">> \o var_match_list[1], st.pos))

\* self._args = [args_mapping[key] for key in sorted(args_mapping.keys())]
LazyStringDone(raw_string, st2, cached) ==
    IF IsErr(st2) THEN st2
    ELSE LazyString(raw_string, st2.string, SortedValues(st2.args_mapping), cached)

\* the second loop runs on the string the first loop left, from position 0 again
LazyStringVariables(raw_string, st1, fm, cvs, cached) ==
    IF IsErr(st1) THEN st1
    ELSE LazyStringDone(raw_string,
                        ParseVariables(regex_findall_variables(st1.string), raw_string,
                                       ParseState(st1.string, st1.args_mapping, 1), fm, cvs),
                        cached)

\* LazyString.__init__ / __parse: the LazyString or the exception raised
LazyString_parse(raw_string, fm, cvs, cached) ==
    LazyStringVariables(raw_string,
                        ParseFunctions(regex_findall_functions(raw_string), raw_string,
                                       ParseState(raw_string, <<>>, 1), fm, cvs),
                        fm, cvs, cached)

\* the dict of the prepared keys and values, or the first exception: each
\* key is prepared before its value
PreparedDict(keys, vals, first) ==
    IF first > 0
    THEN IF IsErr(keys[first]) THEN keys[first] ELSE vals[first]
    ELSE VDict([i \in 1..Len(keys) |-> Item(keys[i], vals[i])])

PrepareDictItems(keys, vals) ==
    PreparedDict(keys, vals,
                 MinOrZero({i \in 1..Len(keys) : IsErr(keys[i]) \/ IsErr(vals[i])}))

PrepareListItems(items) == AllOrFirstErr(items, FirstErr(items))

prepare_lazy_data(c, fm, cvs, cached) ==
    CASE c.k \in {"none", "int", "bool"} -> c
      [] c.k = "list" ->
            PrepareListItems([i \in 1..Len(c.v) |-> prepare_lazy_data(c.v[i], fm, cvs, cached)])
      [] c.k = "dict" ->
            PrepareDictItems(
                [i \in 1..Len(c.v) |-> prepare_lazy_data(c.v[i].key, fm, cvs, cached)],
                [i \in 1..Len(c.v) |-> prepare_lazy_data(c.v[i].val, fm, cvs, cached)])
      [] c.k = "str" ->
            IF ~(is_variable_exist(c.v) \/ is_function_exist(c.v)) THEN c
            ELSE LazyString_parse(Strip(c.v), fm, cvs, cached)
      [] OTHER -> c      \* a LazyString already: returned as it is

----------------------------------------------------------------------------
(* repr(), str() and str.format() *)

RECURSIVE Repr(_)
RECURSIVE ReprItems(_)

\* "k: v" of every item of a dict, in order
ReprItems(items) ==
    [i \in 1..Len(items) |-> Repr(items[i].key) \o <<":", " ">> \o Repr(items[i].val)]

\* repr() of a concrete value
Repr(x) ==
    CASE x.k = "none" -> <<"N", "o", "n", "e">>
      [] x.k = "int" -> IntToStr(x.v)
      [] x.k = "bool" -> IF x.v THEN <<"T", "r", "u", "e">> ELSE <<"F", "a", "l", "s", "e">>
      [] x.k = "str" -> <<"'">> \o x.v \o <<"'">>
      [] x.k = "list" -> <<"[">> \o Join([i \in 1..Len(x.v) |-> Repr(x.v[i])], <<",", " ">>)
                               \o <<"]">>
      [] x.k = "dict" -> <<"{">> \o Join(ReprItems(x.v), <<",", " ">>) \o <<"}">>
      [] x.k = "lazy" -> <<"L", "a", "z", "y", "S", "t", "r", "i", "n", "g", "(">>
                               \o x.v.raw_string \o <<")">>
      [] OTHER -> <<"?">>

\* format(x, ""): str(x)
ToStr(x) == IF x.k = "str" THEN x.v ELSE Repr(x)

RECURSIVE FormatFrom(_, _, _, _, _)
\* template.format(*args) from position i on, n fields consumed, acc the text so far
FormatFrom(template, i, args, n, acc) ==
    IF i > Len(template) THEN VStr(acc)
    ELSE IF StartsAt(template, <<"{", "}">>, i)
    THEN IF n + 1 > Len(args) THEN Err("IndexError", template)
         ELSE FormatFrom(template, i + 2, args, n + 1, acc \o ToStr(args[n + 1]))
    ELSE IF StartsAt(template, <<"{", "{">>, i) \/ StartsAt(template, <<"}", "}">>, i)
    THEN FormatFrom(template, i + 2, args, n, Append(acc, template[i]))
    ELSE IF template[i] \in {"{", "}"} THEN Err("ValueError", template)
    ELSE FormatFrom(template, i + 1, args, n, Append(acc, template[i]))

Format(template, args) == FormatFrom(template, 1, args, 0, <<>>)

----------------------------------------------------------------------------
(* The callables of the environment, by __name__ *)

\* returns a new value at every call; sum_two adds two integers; gen is
\* the framework's helper returning a list; fst returns its first argument
rand == <<"r", "n", "d">>
sum_two == <<"s", "u", "m">>
gen == <<"g", "e", "n">>
fst == <<"f", "s", "t">>

\* func(*args, **kwargs): args a sequence of values, kwargs a sequence of
\* items, calls the number of calls made before this one. No input of the
\* model reaches a callable other than these four.
Call(func, args, kwargs, calls) ==
    IF \E i \in 1..Len(kwargs) : kwargs[i].key.k # "str"
    THEN Err("TypeError", func)                      \* keywords must be strings
    ELSE CASE func = rand -> VInt(calls + 1)
           [] func = sum_two ->
                 IF Len(args) = 2 /\ Len(kwargs) = 0
                    /\ args[1].k = "int" /\ args[2].k = "int"
                 THEN VInt(args[1].v + args[2].v)
                 ELSE Err("TypeError", func)
           [] func = gen ->
                 IF Len(args) = 0 /\ Len(kwargs) = 0 THEN VList(<<VInt(1), VInt(2)>>)
                 ELSE Err("TypeError", func)
           [] func = fst ->
                 IF Len(args) >= 1 /\ Len(kwargs) = 0 THEN args[1]
                 ELSE Err("TypeError", func)
           [] OTHER -> Err("TypeError", func)

----------------------------------------------------------------------------
(* Evaluator *)

\* what an evaluation leaves: the value (or the exception raised), the
\* evaluated object as the evaluation left it (to_value sets cache_key), the
\* module-level cached_functions_mapping and the number of calls made so far
Outcome(val, obj, cache, calls) == [val |-> val, obj |-> obj, cache |-> cache, calls |-> calls]

\* a mapping of variables: a sequence of items whose keys are names
DictHas(items, key) == \E i \in 1..Len(items) : items[i].key = key
DictGet(items, key) == items[MinOrZero({i \in 1..Len(items) : items[i].key = key})].val
DictKeys(items) == {items[i].key : i \in 1..Len(items)}

get_mapping_variable(variable_name, vm) ==
    IF DictHas(vm, variable_name) THEN DictGet(vm, variable_name)
    ELSE Err("VariableNotFound", variable_name)

RECURSIVE parse_lazy_data(_, _, _, _)
RECURSIVE EvalSeq(_, _, _, _)
RECURSIVE EvalItems(_, _, _, _, _, _)
RECURSIVE EvalArgs(_, _, _, _, _)

EvalSeqTail(o, r) ==
    Outcome(IF IsErr(r.val) THEN r.val ELSE VList(<<o.val>> \o r.val.v),
            <<o.obj>> \o r.obj, r.cache, r.calls)

EvalSeqHead(rest, vm, o) ==
    IF IsErr(o.val) THEN Outcome(o.val, <<o.obj>> \o rest, o.cache, o.calls)
    ELSE EvalSeqTail(o, EvalSeq(rest, vm, o.cache, o.calls))

\* [parse_lazy_data(item, variables_mapping) for item in content]
EvalSeq(xs, vm, cache, calls) ==
    IF Len(xs) = 0 THEN Outcome(VList(<<>>), <<>>, cache, calls)
    ELSE EvalSeqHead(Tail(xs), vm, parse_lazy_data(xs[1], vm, cache, calls))

\* parsed_content[parsed_key] = parsed_value, then the items that follow
EvalItemValue(items, done, acc, vm, ko, vo) ==
    IF IsErr(vo.val)
    THEN Outcome(vo.val, done \o <<Item(ko.obj, vo.obj)>> \o Tail(items), vo.cache, vo.calls)
    ELSE EvalItems(Tail(items), Append(done, Item(ko.obj, vo.obj)),
                   DictSet(acc, ko.val, vo.val), vm, vo.cache, vo.calls)

\* the key is evaluated before the value; a list or a dict is no dict key
EvalItemKey(items, done, acc, vm, ko) ==
    IF IsErr(ko.val)
    THEN Outcome(ko.val, done \o <<Item(ko.obj, items[1].val)>> \o Tail(items),
                 ko.cache, ko.calls)
    ELSE EvalItemValue(items, done, acc, vm, ko,
            IF ko.val.k \in {"list", "dict"}
            THEN Outcome(Err("TypeError", <<>>), items[1].val, ko.cache, ko.calls)
            ELSE parse_lazy_data(items[1].val, vm, ko.cache, ko.calls))

\* the for loop of parse_lazy_data over the items of a dict: done the items
\* evaluated so far, acc the parsed_content so far
EvalItems(items, done, acc, vm, cache, calls) ==
    IF Len(items) = 0 THEN Outcome(VDict(acc), done, cache, calls)
    ELSE EvalItemKey(items, done, acc, vm,
                     parse_lazy_data(items[1].key, vm, cache, calls))

\* (self._func.__name__, repr(args), repr(kwargs))
CacheKey(func, args, kwargs) == [k |-> "key", v |-> <<func, Repr(args), Repr(kwargs)>>]

LazyFunctionCall(f, ao, ko) ==
    IF IsErr(ko.val)
    THEN Outcome(ko.val, [f EXCEPT !.v.args = ao.obj, !.v.kwargs = ko.obj], ko.cache, ko.calls)
    ELSE Outcome(Call(f.v.func, ao.val.v, ko.val.v, ko.calls),
                 [f EXCEPT !.v.args = ao.obj, !.v.kwargs = ko.obj,
                           !.v.cache_key = CacheKey(f.v.func, ao.val, ko.val)],
                 ko.cache, ko.calls + 1)

LazyFunctionKwargs(f, vm, ao) ==
    IF IsErr(ao.val) THEN Outcome(ao.val, [f EXCEPT !.v.args = ao.obj], ao.cache, ao.calls)
    ELSE LazyFunctionCall(f, ao, parse_lazy_data(f.v.kwargs, vm, ao.cache, ao.calls))

\* LazyFunction.to_value: args, kwargs, cache_key, then the call
LazyFunction_to_value(f, vm, cache, calls) ==
    LazyFunctionKwargs(f, vm, parse_lazy_data(f.v.args, vm, cache, calls))

\* cached_functions_mapping[arg.cache_key] = value
StoreResult(o) ==
    IF IsErr(o.val) THEN o
    ELSE [o EXCEPT !.cache = MapSet(o.cache, o.obj.v.cache_key, o.val)]

\* one round of the loop of LazyString.to_value
EvalArg(arg, cached, vm, cache, calls) ==
    IF arg.k = "func"
    THEN IF cached /\ arg.v.cache_key.k # "none" /\ arg.v.cache_key \in DOMAIN cache
         THEN Outcome(cache[arg.v.cache_key], arg, cache, calls)
         ELSE StoreResult(LazyFunction_to_value(arg, vm, cache, calls))
    ELSE Outcome(get_mapping_variable(arg.v, vm), arg, cache, calls)

EvalArgsTail(o, r) ==
    Outcome(IF IsErr(r.val) THEN r.val ELSE VList(<<o.val>> \o r.val.v),
            <<o.obj>> \o r.obj, r.cache, r.calls)

EvalArgsHead(rest, cached, vm, o) ==
    IF IsErr(o.val) THEN Outcome(o.val, <<o.obj>> \o rest, o.cache, o.calls)
    ELSE EvalArgsTail(o, EvalArgs(rest, cached, vm, o.cache, o.calls))

\* the for loop of LazyString.to_value over self._args
EvalArgs(args, cached, vm, cache, calls) ==
    IF Len(args) = 0 THEN Outcome(VList(<<>>), <<>>, cache, calls)
    ELSE EvalArgsHead(Tail(args), cached, vm, EvalArg(args[1], cached, vm, cache, calls))

\* the return of LazyString.to_value
FormatResult(l, ao) ==
    Outcome(IF IsErr(ao.val) THEN ao.val
            ELSE IF l.v.string = <<"{", "}">>
            THEN IF Len(ao.val.v) = 0 THEN Err("IndexError", l.v.string) ELSE ao.val.v[1]
            ELSE Format(l.v.string, ao.val.v),
            [l EXCEPT !.v.args = ao.obj], ao.cache, ao.calls)

LazyString_to_value(l, vm, cache, calls) ==
    FormatResult(l, EvalArgs(l.v.args, l.v.cached, vm, cache, calls))

ListOutcome(o) == [o EXCEPT !.obj = VList(@)]
DictOutcome(o) == [o EXCEPT !.obj = VDict(@)]

parse_lazy_data(c, vm, cache, calls) ==
    CASE c.k = "lazy" -> LazyString_to_value(c, vm, cache, calls)
      [] c.k = "list" -> ListOutcome(EvalSeq(c.v, vm, cache, calls))
      [] c.k = "dict" -> DictOutcome(EvalItems(c.v, <<>>, <<>>, vm, cache, calls))
      [] OTHER -> Outcome(c, c, cache, calls)

----------------------------------------------------------------------------
(* Inputs of the preparer and the evaluator *)

MaxPieces == 3

x_ == <<"x">>
y_ == <<"y">>
STR_x == <<"$", "x">>
STR_y == <<"$", "y">>
STR_dash == <<"-">>
STR_rnd == <<"$", "{", "r", "n", "d", "(", ")", "}">>
STR_sum_x_1 == <<"$", "{", "s", "u", "m", "(", "$", "x", ",", " ", "1", ")", "}">>
STR_rnd_kx_ky ==
    <<"$", "{", "r", "n", "d", "(", "k", "=", "$", "x", ",", "k", "=", "$", "y", ")", "}">>
Pieces == {STR_x, STR_y, STR_dash, STR_rnd, STR_sum_x_1, STR_rnd_kx_ky}

RECURSIVE Concats(_)
\* the strings made of n pieces
Concats(n) == IF n = 0 THEN {<<>>} ELSE {p \o s : p \in Pieces, s \in Concats(n - 1)}
RawStrings == UNION {Concats(n) : n \in 1..MaxPieces}

\* a string on its own, in a list, as a value nested in a dict, as a dict key
Contents(s) ==
    {VStr(s),
     VList(<<VInt(1), VStr(s)>>),
     VDict(<<Item(VStr(<<"u">>), VList(<<VStr(s)>>))>>),
     VDict(<<Item(VStr(s), VInt(1))>>)}

\* the functions of the project, under their own names
UserFunctions == [n \in {rand, sum_two, fst} |-> n]

XValues == {VInt(42), VStr(<<"v">>), VList(<<VInt(1), VInt(2)>>)}
Y_VALUE == VInt(7)
NoCache == <<>>

ResolverIdle == ignore = FALSE /\ parsed_variables_mapping = <<>> /\ var_idx = 0
CacheIdle == lazy_values = <<>> /\ returned = <<>>
StepsIdle ==
    /\ config = VNone /\ tests = <<>> /\ test_idx = 0
    /\ session_variables = <<>> /\ prepared_testcase_tests = <<>>
SuiteIdle ==
    /\ project_variables = <<>> /\ testsuite_config = VNone /\ testcases = <<>>
    /\ testcase_idx = 0 /\ parsed_testcase_list = <<>>

----------------------------------------------------------------------------
(* prepare_lazy_data, then parse_lazy_data on what it returned *)

InitPrepare ==
    /\ pc = "start"
    /\ content \in UNION {Contents(s) : s \in RawStrings}
    /\ prepared = VNone
    /\ functions_mapping = UserFunctions
    /\ check_variables_set \in SUBSET {x_, y_}
    /\ variables_mapping \in {<<Item(x_, xv), Item(y_, Y_VALUE)>> : xv \in XValues}
    /\ result = VNone
    /\ cached_functions_mapping = NoCache
    /\ ncalls = 0
    /\ ResolverIdle /\ CacheIdle /\ StepsIdle /\ SuiteIdle

\* prepare_lazy_data(content, functions_mapping, check_variables_set)
Prepared(p) ==
    /\ pc' = "prepared"
    /\ result' = p
    /\ prepared' = IF IsErr(p) THEN VNone ELSE p
    /\ UNCHANGED <<content, functions_mapping, check_variables_set, variables_mapping,
                   resolverVars, evalVars, cacheVars, stepVars, suiteVars>>

Prepare ==
    /\ pc = "start"
    /\ Prepared(prepare_lazy_data(content, functions_mapping, check_variables_set, FALSE))

\* parse_lazy_data(prepared, variables_mapping)
Evaluated(o) ==
    /\ pc' = "evaluated"
    /\ result' = o.val
    /\ prepared' = o.obj
    /\ cached_functions_mapping' = o.cache
    /\ ncalls' = o.calls
    /\ UNCHANGED <<content, functions_mapping, check_variables_set, variables_mapping,
                   resolverVars, cacheVars, stepVars, suiteVars>>

Evaluate ==
    /\ pc = "prepared"
    /\ ~IsErr(result)
    /\ Evaluated(parse_lazy_data(prepared, variables_mapping, cached_functions_mapping, ncalls))

NextPrepare == Prepare \/ Evaluate

SpecPrepare == InitPrepare /\ [][NextPrepare]_vars

----------------------------------------------------------------------------
(* Reference semantics of a template, read off the raw string *)

\* the names a content references: every $NAME of every string in it,
\* inside the argument text of a function call too
RECURSIVE ReferencedNames(_)
ReferencedNames(c) ==
    CASE c.k = "str" -> Range(regex_findall_variables(c.v))
      [] c.k = "list" -> UNION {ReferencedNames(c.v[i]) : i \in 1..Len(c.v)}
      [] c.k = "dict" -> UNION {ReferencedNames(c.v[i].key) \cup ReferencedNames(c.v[i].val) :
                                  i \in 1..Len(c.v)}
      [] OTHER -> {}

Fragment(kind, text) == [kind |-> kind, text |-> text]

RECURSIVE Fragments(_, _)
FragmentsAt(s, i, m, e) ==
    IF m.end > 0 THEN <<Fragment("func", SubSeq(s, i, m.end))>> \o Fragments(s, m.end + 1)
    ELSE IF e > 0 THEN <<Fragment("var", SubSeq(s, i, e))>> \o Fragments(s, e + 1)
    ELSE <<Fragment("text", <<s[i]>>)>> \o Fragments(s, i + 1)

\* the placeholders and the literal characters of s from position i on, in
\* their order of appearance
Fragments(s, i) ==
    IF i > Len(s) THEN <<>> ELSE FragmentsAt(s, i, FuncMatch(s, i), VarMatchEnd(s, i))

\* the value of one fragment on its own
FragmentOutcome(frag, fm, cvs, vm, calls) ==
    IF frag.kind = "text" THEN Outcome(VStr(frag.text), VNone, NoCache, calls)
    ELSE parse_lazy_data(prepare_lazy_data(VStr(frag.text), fm, cvs, FALSE), vm, NoCache, calls)

RECURSIVE FragmentValues(_, _, _, _, _, _)
FragmentValuesNext(rest, fm, cvs, vm, acc, o) ==
    IF IsErr(o.val) THEN o.val
    ELSE FragmentValues(rest, fm, cvs, vm, o.calls, Append(acc, o.val))

\* the values of the fragments, evaluated from left to right
FragmentValues(frags, fm, cvs, vm, calls, acc) ==
    IF Len(frags) = 0 THEN VList(acc)
    ELSE FragmentValuesNext(Tail(frags), fm, cvs, vm, acc,
                            FragmentOutcome(frags[1], fm, cvs, vm, calls))

RECURSIVE ConcatStr(_)
ConcatStr(vals) == IF Len(vals) = 0 THEN <<>> ELSE ToStr(vals[1]) \o ConcatStr(Tail(vals))

\* one placeholder alone: its value; otherwise the string forms in order
ExpectedOf(frags, vals) ==
    IF IsErr(vals) THEN vals
    ELSE IF Len(frags) = 1 /\ frags[1].kind # "text" THEN vals.v[1]
    ELSE VStr(ConcatStr(vals.v))

ExpectedValue(raw_string, fm, cvs, vm, calls) ==
    ExpectedOf(Fragments(raw_string, 1),
               FragmentValues(Fragments(raw_string, 1), fm, cvs, vm, calls, <<>>))

\* C2: whenever a content references a name outside the known set its
\* preparation raises VariableNotFound and yields no lazy value, and whenever
\* every referenced name is known its preparation does not raise VariableNotFound.
C2_StrictKnownVariables ==
    pc = "prepared" =>
        /\ (\E n \in ReferencedNames(content) : n \notin check_variables_set)
              => (IsErrKind(result, "VariableNotFound") /\ prepared.k = "none")
        /\ (\A n \in ReferencedNames(content) : n \in check_variables_set)
              => ~IsErrKind(result, "VariableNotFound")

\* C7: the evaluation of a prepared string returns the value of its one
\* placeholder when the string is exactly one placeholder, and otherwise the
\* string in which every placeholder is replaced, in order, by the string
\* form of its argument.
C7_EvaluationResult ==
    (pc = "evaluated" /\ content.k = "str")
        => result = ExpectedValue(content.v, functions_mapping, check_variables_set,
                                  variables_mapping, 0)

\* the number of {} in a template
RECURSIVE CountPlaceholders(_)
CountPlaceholders(string) ==
    IF Len(string) < 2 THEN 0
    ELSE IF string[1] = "{" /\ string[2] = "}"
    THEN 1 + CountPlaceholders(SubSeq(string, 3, Len(string)))
    ELSE CountPlaceholders(Tail(string))

\* the variable references and function calls of a raw string, from left
\* to right
TemplateFragments(raw_string) ==
    SelectSeq(Fragments(raw_string, 1), LAMBDA frag : frag.kind # "text")

\* the argument a fragment on its own is prepared to
FragmentArg(frag, fm, cvs) == prepare_lazy_data(VStr(frag.text), fm, cvs, FALSE).v.args[1]

\* C18: the template of a LazyString has as many {} as the LazyString has
\* arguments, and its i-th argument is the i-th variable reference or
\* function call of the raw string, from left to right.
C18_PlaceholdersAndArguments ==
    (pc = "prepared" /\ content.k = "str" /\ prepared.k = "lazy") =>
        /\ CountPlaceholders(prepared.v.string) = Len(prepared.v.args)
        /\ Len(prepared.v.args) = Len(TemplateFragments(content.v))
        /\ \A i \in 1..Len(prepared.v.args) :
              prepared.v.args[i] = FragmentArg(TemplateFragments(content.v)[i],
                                               functions_mapping, check_variables_set)

\* the same holds of the raw strings in which no fragment's text occurs in
\* the text of another fragment
C18_OfDistinctFragments ==
    (pc = "prepared" /\ content.k = "str" /\ prepared.k = "lazy"
       /\ \A i, j \in 1..Len(TemplateFragments(content.v)) :
             i # j => Find(TemplateFragments(content.v)[j].text,
                           TemplateFragments(content.v)[i].text, 1) = 0) =>
        /\ CountPlaceholders(prepared.v.string) = Len(prepared.v.args)
        /\ Len(prepared.v.args) = Len(TemplateFragments(content.v))
        /\ \A i \in 1..Len(prepared.v.args) :
              prepared.v.args[i] = FragmentArg(TemplateFragments(content.v)[i],
                                               functions_mapping, check_variables_set)


----------------------------------------------------------------------------
(* parse_variables_mapping *)

RECURSIVE extract_variables(_)
extract_variables(c) ==
    CASE c.k = "list" -> UNION {extract_variables(c.v[i]) : i \in 1..Len(c.v)}
      [] c.k = "dict" -> UNION {extract_variables(c.v[i].val) : i \in 1..Len(c.v)}
      [] c.k = "lazy" -> Range(regex_findall_variables(c.v.raw_string))
      [] OTHER -> {}

MaxVars == 3

a_ == <<"a">>
b_ == <<"b">>
c_ == <<"c">>
d_ == <<"d">>
q_ == <<"q">>
VarNames == <<a_, b_, c_, d_>>

RAW_z == VStr(<<"z">>)
RAW_a == VStr(<<"$", "a">>)
RAW_q == VStr(<<"$", "q">>)
RAW_b_x == VStr(<<"$", "b", "-", "x">>)
RAW_c_y == VStr(<<"$", "c", "-", "y">>)
RAW_list_a == VList(<<VStr(<<"$", "a">>), VInt(2)>>)
RAW_dict_a == VDict(<<Item(VStr(<<"u">>), VStr(<<"$", "a">>))>>)
RAW_fst_a == VStr(<<"$", "{", "f", "s", "t", "(", "$", "a", ")", "}">>)
RAW_sum_a_1 == VStr(<<"$", "{", "s", "u", "m", "(", "$", "a", ",", " ", "1", ")", "}">>)

\* the raw values the i-th name may take
RawValues ==
    <<{RAW_z, RAW_b_x, RAW_a, RAW_list_a, RAW_dict_a, RAW_fst_a},
      {RAW_z, RAW_c_y, RAW_a, RAW_fst_a, RAW_q, RAW_b_x},
      {RAW_z, RAW_b_x, RAW_list_a, RAW_sum_a_1},
      {RAW_z, RAW_c_y}>>

\* the iteration orders of a dict of n items
Orders(n) == {o \in [1..n -> 1..n] : \A i, j \in 1..n : o[i] = o[j] => i = j}

\* the names known when the values are prepared: the names a test may
\* declare (the keys of the map are among them) and one name never declared
KnownNames == Range(VarNames) \cup {q_}

\* the prepared variables mappings of n items, in every iteration order: the
\* callers prepare the raw values before they call parse_variables_mapping
PreparedMappings(n) ==
    {[i \in 1..n |-> Item(VarNames[o[i]],
                          prepare_lazy_data(raw[o[i]], UserFunctions, KnownNames, TRUE))] :
        raw \in {r \in [1..n -> UNION Range(RawValues)] : \A i \in 1..n : r[i] \in RawValues[i]},
        o \in Orders(n)}

PrepareIdle == content = VNone /\ prepared = VNone /\ check_variables_set = {}

InitResolver ==
    /\ pc = "while"
    /\ functions_mapping = UserFunctions
    /\ variables_mapping \in UNION {PreparedMappings(n) : n \in 0..MaxVars}
    /\ ignore \in BOOLEAN
    /\ parsed_variables_mapping = <<>>
    /\ var_idx = 0
    /\ result = VNone
    /\ cached_functions_mapping = NoCache
    /\ ncalls = 0
    /\ PrepareIdle /\ CacheIdle /\ StepsIdle /\ SuiteIdle

var_name == variables_mapping[var_idx].key
value == variables_mapping[var_idx].val

\* while len(parsed_variables_mapping) != len(variables_mapping): ... return
WhileTest ==
    /\ pc = "while"
    /\ IF Len(parsed_variables_mapping) # Len(variables_mapping)
       THEN pc' = "for" /\ var_idx' = 1 /\ result' = result
       ELSE pc' = "done" /\ var_idx' = var_idx /\ result' = VDict(parsed_variables_mapping)
    /\ UNCHANGED <<variables_mapping, ignore, parsed_variables_mapping, functions_mapping, prepareVars,
                   evalVars, cacheVars, stepVars, suiteVars>>

\* the for loop moves on to the next name, or ends (var_idx stays on the last
\* name) and the while test is next
NextName ==
    IF var_idx = Len(variables_mapping)
    THEN pc' = "while" /\ var_idx' = var_idx
    ELSE pc' = "for" /\ var_idx' = var_idx + 1

\* if var_name in parsed_variables_mapping: continue
SkipParsed ==
    /\ pc = "for"
    /\ DictHas(parsed_variables_mapping, var_name)
    /\ NextName
    /\ UNCHANGED <<variables_mapping, ignore, parsed_variables_mapping, result, functions_mapping, prepareVars,
                   evalVars, cacheVars, stepVars, suiteVars>>

\* a self-reference check that keeps the value whatever ignore is
SelfReference_NeverRaises ==
    /\ pc = "for"
    /\ ~DictHas(parsed_variables_mapping, var_name)
    /\ var_name \in extract_variables(value)
    /\ parsed_variables_mapping' = Append(parsed_variables_mapping, Item(var_name, value))
    /\ NextName
    /\ UNCHANGED <<variables_mapping, ignore, result, functions_mapping, prepareVars,
                   evalVars, cacheVars, stepVars, suiteVars>>

\* if var_name in variables: keep the value when ignore, raise otherwise
SelfReference ==
    /\ pc = "for"
    /\ ~DictHas(parsed_variables_mapping, var_name)
    /\ var_name \in extract_variables(value)
    /\ IF ignore
       THEN /\ parsed_variables_mapping' =
                    Append(parsed_variables_mapping, Item(var_name, value))
            /\ NextName
            /\ result' = result
       ELSE /\ pc' = "raised"
            /\ result' = Err("VariableNotFound", var_name)
            /\ UNCHANGED <<parsed_variables_mapping, var_idx>>
    /\ UNCHANGED <<variables_mapping, ignore, functions_mapping, prepareVars,
                   evalVars, cacheVars, stepVars, suiteVars>>

\* a readiness test that never waits for a referenced variable
NotAllParsed_NeverWaits(variables) == FALSE

\* any([var_name not in parsed_variables_mapping for var_name in variables])
NotAllParsed(variables) == \E v \in variables : ~DictHas(parsed_variables_mapping, v)

\* a referenced variable is not parsed yet: continue
NotReady ==
    /\ pc = "for"
    /\ ~DictHas(parsed_variables_mapping, var_name)
    /\ var_name \notin extract_variables(value)
    /\ NotAllParsed(extract_variables(value))
    /\ NextName
    /\ UNCHANGED <<variables_mapping, ignore, parsed_variables_mapping, result, functions_mapping, prepareVars,
                   evalVars, cacheVars, stepVars, suiteVars>>

\* an assignment that stores the value as it is, not what it evaluates to
Resolved_KeepsLazy(o) ==
    /\ parsed_variables_mapping' = Append(parsed_variables_mapping, Item(var_name, value))
    /\ NextName
    /\ UNCHANGED <<variables_mapping, ignore, result, functions_mapping, prepareVars,
                   evalVars, cacheVars, stepVars, suiteVars>>

\* parsed_variables_mapping[var_name] = parse_lazy_data(value, parsed_variables_mapping)
Resolved(o) ==
    /\ variables_mapping' = [variables_mapping EXCEPT ![var_idx].val = o.obj]
    /\ cached_functions_mapping' = o.cache
    /\ ncalls' = o.calls
    /\ IF IsErr(o.val)
       THEN /\ pc' = "raised"
            /\ result' = o.val
            /\ UNCHANGED <<parsed_variables_mapping, var_idx>>
       ELSE /\ parsed_variables_mapping' =
                    Append(parsed_variables_mapping, Item(var_name, o.val))
            /\ NextName
            /\ result' = result
    /\ UNCHANGED <<ignore, functions_mapping, prepareVars, cacheVars, stepVars, suiteVars>>

Resolve ==
    /\ pc = "for"
    /\ ~DictHas(parsed_variables_mapping, var_name)
    /\ var_name \notin extract_variables(value)
    /\ ~NotAllParsed(extract_variables(value))
    /\ Resolved(parse_lazy_data(value, parsed_variables_mapping,
                                cached_functions_mapping, ncalls))

NextResolver == WhileTest \/ SkipParsed \/ SelfReference \/ NotReady \/ Resolve

SpecResolver == InitResolver /\ [][NextResolver]_vars

----------------------------------------------------------------------------
(* Reference semantics of a variables mapping, free of any iteration order *)

\* the names of the mapping, in the fixed order of VarNames
CanonNames(vm) == SelectSeq(VarNames, LAMBDA n : DictHas(vm, n))

\* the names whose own value references them
SelfRefNames(vm) == {vm[i].key : i \in {j \in 1..Len(vm) : vm[j].key \in extract_variables(vm[j].val)}}

\* what name n has in the next layer: what it had, or its value evaluated
\* against the layer when every name it references is in the layer
LayerItem(vm, acc, n) ==
    IF DictHas(acc, n) THEN <<Item(n, DictGet(acc, n))>>
    ELSE IF extract_variables(DictGet(vm, n)) \subseteq DictKeys(acc)
    THEN <<Item(n, parse_lazy_data(DictGet(vm, n), acc, NoCache, 0).val)>>
    ELSE <<>>

RECURSIVE Layer(_, _, _)
Layer(vm, acc, names) ==
    IF Len(names) = 0 THEN <<>>
    ELSE LayerItem(vm, acc, names[1]) \o Layer(vm, acc, Tail(names))

\* the names resolvable in at most fuel layers, with their values
RECURSIVE Layers(_, _, _)
Layers(vm, acc, fuel) ==
    IF fuel = 0 THEN acc ELSE Layers(vm, Layer(vm, acc, CanonNames(vm)), fuel - 1)

\* the resolution of vm: every name of an acyclic mapping whose references
\* are all keys has a value here, and only of such a mapping
ExpectedMapping(vm) == Layers(vm, <<>>, Len(vm))

SameMapping(items, expected) ==
    /\ DictKeys(items) = DictKeys(expected)
    /\ Len(items) = Len(expected)
    /\ \A i \in 1..Len(items) : items[i].val = DictGet(expected, items[i].key)

ResolvesTo(expected) ==
    Len(expected) = Len(variables_mapping) =>
        /\ pc = "done" => (/\ DictKeys(result.v) = DictKeys(variables_mapping)
                           /\ SameMapping(result.v, expected))
        /\ pc = "raised" => \E i \in 1..Len(expected) : expected[i].val = result

\* no unresolved name can be resolved: none references itself and each
\* references a name that is not resolved
NothingResolvable ==
    \A i \in 1..Len(variables_mapping) :
        \/ DictHas(parsed_variables_mapping, variables_mapping[i].key)
        \/ /\ variables_mapping[i].key \notin extract_variables(variables_mapping[i].val)
           /\ NotAllParsed(extract_variables(variables_mapping[i].val))

\* C1: parse_variables_mapping terminates: once a pass is over and no
\* unresolved name can be resolved any more (another pass resolves nothing and
\* ends in this very state), the loop stops and returns the partial map of
\* the names resolved so far.
C1_StopsWithoutProgress ==
    [][(pc = "while" /\ var_idx > 0 /\ NothingResolvable)
          => (pc' = "done" /\ result' = VDict(parsed_variables_mapping))]_vars

\* C4: for an acyclic mapping whose references are all keys of it, the map
\* returned has the keys of the input and gives each name its value evaluated
\* against the resolved values of the names it references, whatever the
\* iteration order; it raises only what such an evaluation raises.
C4_OrderIndependent ==
    pc \in {"done", "raised"} => ResolvesTo(ExpectedMapping(variables_mapping))

C4_Witness ==
    /\ pc = "done"
    /\ Len(variables_mapping) = 3
    /\ variables_mapping[1].key = a_ /\ variables_mapping[2].key = b_
    /\ DictGet(result.v, a_) = VStr(<<"z", "-", "y", "-", "x">>)
    /\ DictGet(result.v, b_) = VStr(<<"z", "-", "y">>)
    /\ DictGet(result.v, c_) = VStr(<<"z">>)

\* the value a name has when it is evaluated against the map returned
ValueAgainst(items, n) ==
    parse_lazy_data(DictGet(variables_mapping, n), items, NoCache, 0).val

RECURSIVE IsConcrete(_)
\* no LazyString and no LazyFunction at any depth
IsConcrete(x) ==
    CASE x.k \in {"lazy", "func", "var"} -> FALSE
      [] x.k = "list" -> \A i \in 1..Len(x.v) : IsConcrete(x.v[i])
      [] x.k = "dict" -> \A i \in 1..Len(x.v) : IsConcrete(x.v[i].key) /\ IsConcrete(x.v[i].val)
      [] OTHER -> TRUE

ConcreteAndClosed ==
    /\ \A i \in 1..Len(result.v) : IsConcrete(result.v[i].val)
    /\ \A i \in 1..Len(variables_mapping) :
          extract_variables(variables_mapping[i].val) \subseteq DictKeys(result.v)

----------------------------------------------------------------------------
(* A config-level value and a teststep's value, evaluated again and again *)

MaxEvals == 4

STR_rnd_1 == <<"$", "{", "r", "n", "d", "(", "1", ")", "}">>
STR_id_rnd == <<"i", "d", "-">> \o STR_rnd
CachedRaws == {STR_rnd, STR_rnd_1, STR_id_rnd}

\* lazy_values[1] is a value of the config, prepared by __prepare_config with
\* cached=True; lazy_values[2] is a value of a teststep or of another config
InitCache ==
    /\ pc = "evaluating"
    /\ functions_mapping = UserFunctions
    /\ variables_mapping = <<Item(x_, VInt(42))>>
    /\ lazy_values \in
          {<<prepare_lazy_data(VStr(r1), UserFunctions, {x_}, TRUE),
             prepare_lazy_data(VStr(r2), UserFunctions, {x_}, c)>> :
                r1 \in CachedRaws, r2 \in CachedRaws, c \in BOOLEAN}
    /\ returned = <<>>
    /\ result = VNone
    /\ cached_functions_mapping = NoCache
    /\ ncalls = 0
    /\ PrepareIdle /\ ResolverIdle /\ StepsIdle /\ SuiteIdle

\* parse_lazy_data(lazy_values[i], variables_mapping), o what it leaves
EvaluatedValue(i, o) ==
    /\ lazy_values' = [lazy_values EXCEPT ![i] = o.obj]
    /\ returned' = Append(returned, [of |-> i, val |-> o.val, calls |-> o.calls - ncalls])
    /\ result' = o.val
    /\ cached_functions_mapping' = o.cache
    /\ ncalls' = o.calls
    /\ UNCHANGED <<pc, functions_mapping, variables_mapping, prepareVars, resolverVars,
                   stepVars, suiteVars>>

EvaluateValue(i) ==
    /\ pc = "evaluating"
    /\ Len(returned) < MaxEvals
    /\ EvaluatedValue(i, parse_lazy_data(lazy_values[i], variables_mapping,
                                         cached_functions_mapping, ncalls))

\* a teststep that references the config's value evaluates it
EvaluateConfigValue == EvaluateValue(1)
\* a teststep evaluates a value of its own
EvaluateOtherValue == EvaluateValue(2)

NextCache == EvaluateConfigValue \/ EvaluateOtherValue

SpecCache == InitCache /\ [][NextCache]_vars

\* the evaluations of the config's value so far
ConfigEvaluations == SelectSeq(returned, LAMBDA e : e.of = 1)

RECURSIVE SumCalls(_)
SumCalls(es) == IF Len(es) = 0 THEN 0 ELSE es[1].calls + SumCalls(Tail(es))

\* C3: the successive evaluations of a config-level value prepared with
\* cached=True call its function exactly once in total, and each of them
\* returns the value of that one call.
C3_CalledOnce ==
    Len(ConfigEvaluations) > 0 =>
        /\ SumCalls(ConfigEvaluations) = 1
        /\ \A i \in 1..Len(ConfigEvaluations) :
              ConfigEvaluations[i].val = ConfigEvaluations[1].val

----------------------------------------------------------------------------
(* One cached LazyString evaluated under one variables mapping after another *)

STR_fst_x == <<"$", "{", "f", "s", "t", "(", "$", "x", ")", "}">>
STR_id_sum == <<"i", "d", "-">> \o STR_sum_x_1

\* one function call each: of arguments that the mapping decides, of none
ReevaluatedRaws == {STR_sum_x_1, STR_fst_x, STR_id_sum, STR_rnd}
ReevaluatedValues == {VInt(1), VInt(2), VInt(3)}

InitReevaluate ==
    /\ pc = "evaluating"
    /\ functions_mapping = UserFunctions
    /\ variables_mapping = <<>>
    /\ lazy_values \in {<<prepare_lazy_data(VStr(r), UserFunctions, {x_}, c)>> :
                           r \in ReevaluatedRaws, c \in BOOLEAN}
    /\ returned = <<>>
    /\ result = VNone
    /\ cached_functions_mapping = NoCache
    /\ ncalls = 0
    /\ PrepareIdle /\ ResolverIdle /\ StepsIdle /\ SuiteIdle

\* parse_lazy_data(lazy_values[1], vm), o what it leaves
Reevaluated(vm, o) ==
    /\ variables_mapping' = vm
    /\ lazy_values' = <<o.obj>>
    /\ returned' = Append(returned, [of |-> 1, val |-> o.val, calls |-> o.calls - ncalls,
                                     under |-> vm])
    /\ result' = o.val
    /\ cached_functions_mapping' = o.cache
    /\ ncalls' = o.calls
    /\ UNCHANGED <<pc, functions_mapping, prepareVars, resolverVars, stepVars, suiteVars>>

Reevaluate ==
    /\ pc = "evaluating"
    /\ Len(returned) < MaxEvals
    /\ \E xv \in ReevaluatedValues :
          Reevaluated(<<Item(x_, xv)>>,
                      parse_lazy_data(lazy_values[1], <<Item(x_, xv)>>,
                                      cached_functions_mapping, ncalls))

NextReevaluate == Reevaluate

SpecReevaluate == InitReevaluate /\ [][NextReevaluate]_vars

\* the key of the one function call of lazy value l under the mapping vm
KeyUnder(l, vm) ==
    CacheKey(l.v.args[1].v.func,
             parse_lazy_data(l.v.args[1].v.args, vm, NoCache, 0).val,
             parse_lazy_data(l.v.args[1].v.kwargs, vm, NoCache, 0).val)

\* C19: an evaluation of a cached LazyString that calls nothing returns the
\* value an earlier call stored under the key of the function's arguments
\* as the mapping of this evaluation gives them: the result computed for
\* other arguments is never returned.
C19_KeyOfCurrentArguments ==
    \A i \in 1..Len(returned) :
        (lazy_values[1].v.cached /\ returned[i].calls = 0) =>
            \E j \in 1..(i - 1) :
                /\ returned[j].calls = 1
                /\ KeyUnder(lazy_values[1], returned[j].under)
                      = KeyUnder(lazy_values[1], returned[i].under)
                /\ returned[j].val = returned[i].val

\* a LazyString that is not cached calls its function in every evaluation
C19_UncachedCalls ==
    \A i \in 1..Len(returned) : ~lazy_values[1].v.cached => returned[i].calls = 1

----------------------------------------------------------------------------
(* Dicts of test definitions, and the helpers of utils the drivers call *)

K_name == VStr(<<"n", "a", "m", "e">>)
K_variables == VStr(<<"v", "a", "r", "i", "a", "b", "l", "e", "s">>)
K_base_url == VStr(<<"b", "a", "s", "e", "_", "u", "r", "l">>)
K_verify == VStr(<<"v", "e", "r", "i", "f", "y">>)
K_request == VStr(<<"r", "e", "q", "u", "e", "s", "t">>)
K_extract == VStr(<<"e", "x", "t", "r", "a", "c", "t">>)
K_url == VStr(<<"u", "r", "l">>)
K_path == VStr(<<"p", "a", "t", "h">>)
K_weight == VStr(<<"w", "e", "i", "g", "h", "t">>)
EmptyDict == VDict(<<>>)

\* d.get(key, default), d.pop(key, default) and what pop leaves
DictGetOr(items, key, default) == IF DictHas(items, key) THEN DictGet(items, key) ELSE default
DictWithout(items, key) == SelectSeq(items, LAMBDA it : it.key # key)

RECURSIVE DictUpdate(_, _)
\* d.update(other)
DictUpdate(items, other) ==
    IF Len(other) = 0 THEN items
    ELSE DictUpdate(DictSet(items, other[1].key, other[1].val), Tail(other))

\* bool(x)
Truthy(x) ==
    CASE x.k = "none" -> FALSE
      [] x.k = "bool" -> x.v
      [] x.k = "int" -> x.v # 0
      [] x.k \in {"str", "list", "dict"} -> Len(x.v) > 0
      [] OTHER -> TRUE

RECURSIVE MergeDicts(_, _)
MergeDicts(dicts, acc) ==
    IF Len(dicts) = 0 THEN acc
    ELSE MergeDicts(Tail(dicts), DictUpdate(acc, dicts[1].v))

\* utils.ensure_mapping_format: a dict as it is, a list of dicts merged into
\* one dict in order
ensure_mapping_format(variables) ==
    CASE variables.k = "dict" -> variables
      [] variables.k = "list" /\ \A i \in 1..Len(variables.v) : variables.v[i].k = "dict" ->
            VDict(MergeDicts(variables.v, <<>>))
      [] OTHER -> Err("ParamsError", <<>>)

\* utils.extend_variables: raw_variables updated with override_variables
extend_variables(raw_variables, override_variables) ==
    IF ~Truthy(raw_variables) THEN ensure_mapping_format(override_variables)
    ELSE IF ~Truthy(override_variables) THEN ensure_mapping_format(raw_variables)
    ELSE VDict(DictUpdate(ensure_mapping_format(raw_variables).v,
                          ensure_mapping_format(override_variables).v))

\* the names a dict of variables declares
KeyNames(d) == {d.v[i].key.v : i \in 1..Len(d.v)}

----------------------------------------------------------------------------
(* __prepare_config, __prepare_testcase_tests and _parse_testcase *)

\* config["variables"] is set when the mapping is not empty
ConfigWithVariables(rest, mapping) ==
    IF Len(mapping) > 0 THEN DictSet(rest, K_variables, VDict(mapping)) ELSE rest

\* the config with its variables overridden by the project's, and the
\* names it declares
OverriddenConfig(cfg, project_vars) ==
    ConfigWithVariables(
        DictWithout(cfg.v, K_variables),
        DictUpdate(ensure_mapping_format(DictGetOr(cfg.v, K_variables, EmptyDict)).v,
                   project_vars))

ConfigNames(cfg, project_vars) ==
    KeyNames(ensure_mapping_format(DictGetOr(cfg.v, K_variables, EmptyDict)))
        \cup {project_vars[i].key.v : i \in 1..Len(project_vars)}

\* __prepare_config(config, project_mapping)
prepare_config(cfg, project_vars, fm) ==
    prepare_lazy_data(VDict(OverriddenConfig(cfg, project_vars)), fm,
                      ConfigNames(cfg, project_vars), TRUE)

\* what one round of the loop of __prepare_testcase_tests leaves
TestOutcome(test, session, known) == [test |-> test, session |-> session, known |-> known]

\* test_dict["variables"] = extend_variables(test_dict.pop("variables", {}), config_variables)
WithVariables(test_dict, config_variables) ==
    DictSet(DictWithout(test_dict.v, K_variables), K_variables,
            extend_variables(DictGetOr(test_dict.v, K_variables, EmptyDict), config_variables))

\* if (not test_dict.get("base_url")) and config_base_url
WithBaseUrl(items, config_base_url) ==
    IF ~Truthy(DictGetOr(items, K_base_url, VNone)) /\ Truthy(config_base_url)
    THEN DictSet(items, K_base_url, config_base_url)
    ELSE items

\* if "request" in test_dict and "verify" not in test_dict["request"]
WithVerify(items, config_verify) ==
    IF DictHas(items, K_request) /\ ~DictHas(DictGet(items, K_request).v, K_verify)
    THEN DictSet(items, K_request,
                 VDict(DictSet(DictGet(items, K_request).v, K_verify, config_verify)))
    ELSE items

\* session_variables.update(extract_mapping)
WithExtract(items, session) ==
    IF DictHas(items, K_extract)
    THEN DictUpdate(session, ensure_mapping_format(DictGet(items, K_extract)).v)
    ELSE session

\* set(test_dict_variables.keys()) | set(session_variables.keys()) | {"request", "response"}
CheckVariablesSet(test_dict_variables, session) ==
    KeyNames(test_dict_variables) \cup KeyNames(VDict(session))
        \cup {K_request.v, <<"r", "e", "s", "p", "o", "n", "s", "e">>}

PreparedTest(items, session, known, fm) ==
    TestOutcome(prepare_lazy_data(VDict(items), fm, known, FALSE), session, known)

ExtendedTest(items, test_dict_variables, session, fm) ==
    PreparedTest(items, session, CheckVariablesSet(test_dict_variables, session), fm)

\* a loop that moves the extracted names to the session variables only
\* after the teststep is prepared
SessionTest_ExtractAfter(items, test_dict_variables, session, fm) ==
    [ExtendedTest(items, test_dict_variables, session, fm)
        EXCEPT !.session = WithExtract(items, session)]

\* the extracted names are moved to the session variables, then the known
\* set is built of them and of test_dict_variables, the variables the
\* teststep has before it is extended, and the teststep prepared
SessionTest(items, test_dict_variables, session, fm) ==
    ExtendedTest(items, test_dict_variables, WithExtract(items, session), fm)

----------------------------------------------------------------------------
(* parse_validator *)

K_check == VStr(<<"c", "h", "e", "c", "k">>)
K_expect == VStr(<<"e", "x", "p", "e", "c", "t">>)
K_expected == VStr(<<"e", "x", "p", "e", "c", "t", "e", "d">>)
K_comparator == VStr(<<"c", "o", "m", "p", "a", "r", "a", "t", "o", "r">>)
K_eq == VStr(<<"e", "q">>)

ParamsError == Err("ParamsError", <<>>)

\* a validator returned under the key the legacy form also accepts
ValidatorOf_Expected(check_item, expect_value, comparator) ==
    VDict(<<Item(K_check, check_item), Item(K_expected, expect_value),
            Item(K_comparator, comparator)>>)

\* return {"check": check_item, "expect": expect_value, "comparator": comparator}
ValidatorOf(check_item, expect_value, comparator) ==
    VDict(<<Item(K_check, check_item), Item(K_expect, expect_value),
            Item(K_comparator, comparator)>>)

\* format1: check, expect or expected, comparator ("eq" when there is none)
ParseFormat1(validator) ==
    IF DictHas(validator, K_expect)
    THEN ValidatorOf(DictGet(validator, K_check), DictGet(validator, K_expect),
                     DictGetOr(validator, K_comparator, K_eq))
    ELSE IF DictHas(validator, K_expected)
    THEN ValidatorOf(DictGet(validator, K_check), DictGet(validator, K_expected),
                     DictGetOr(validator, K_comparator, K_eq))
    ELSE ParamsError

\* format2: the one key is the comparator, its value the list [check, expect]
ParseFormat2(comparator, compare_values) ==
    IF compare_values.k # "list" \/ Len(compare_values.v) # 2 THEN ParamsError
    ELSE ValidatorOf(compare_values.v[1], compare_values.v[2], comparator)

parse_validator(validator) ==
    IF validator.k # "dict" THEN ParamsError
    ELSE IF DictHas(validator.v, K_check) /\ Len(validator.v) > 1
    THEN ParseFormat1(validator.v)
    ELSE IF Len(validator.v) = 1
    THEN ParseFormat2(validator.v[1].key, validator.v[1].val)
    ELSE ParamsError

----------------------------------------------------------------------------
(* _extend_with_api *)

K_validate == VStr(<<"v", "a", "l", "i", "d", "a", "t", "e">>)
K_setup_hooks == VStr(<<"s", "e", "t", "u", "p", "_", "h", "o", "o", "k", "s">>)
K_teardown_hooks ==
    VStr(<<"t", "e", "a", "r", "d", "o", "w", "n", "_", "h", "o", "o", "k", "s">>)
K_api_def == VStr(<<"a", "p", "i", "_", "d", "e", "f">>)
K_times == VStr(<<"t", "i", "m", "e", "s">>)

RECURSIVE OverrideValidator(_, _)
\* the validators with the one that has v's check replaced by v, or v appended
OverrideValidator(validators, v) ==
    IF Len(validators) = 0 THEN <<v>>
    ELSE IF DictGet(validators[1].v, K_check) = DictGet(v.v, K_check)
    THEN <<v>> \o Tail(validators)
    ELSE <<validators[1]>> \o OverrideValidator(Tail(validators), v)

RECURSIVE OverrideValidators(_, _)
OverrideValidators(validators, overrides) ==
    IF Len(overrides) = 0 THEN validators
    ELSE OverrideValidators(OverrideValidator(validators, overrides[1]), Tail(overrides))

\* utils.extend_validators: the validators of both lists, one of the
\* second list overriding the one of the first with the same check
extend_validators(raw_validators, override_validators) ==
    VList(OverrideValidators(OverrideValidators(<<>>, raw_validators), override_validators))

\* [parse_validator(validator) for validator in validators]
ParsedValidators(validators) ==
    AllOrFirstErr([i \in 1..Len(validators) |-> parse_validator(validators[i])],
                  FirstErr([i \in 1..Len(validators) |-> parse_validator(validators[i])]))

RECURSIVE Distinct(_, _)
\* list(set(hooks)) for hooks of which at most one is distinct: the order
\* of a set of more elements is not determined by the code
Distinct(hooks, acc) ==
    IF Len(hooks) = 0 THEN acc
    ELSE Distinct(Tail(hooks),
                  IF \E i \in 1..Len(acc) : acc[i] = hooks[1] THEN acc ELSE Append(acc, hooks[1]))

\* test_dict["name"] = test_dict.get("name") or api_def_name
ApiName(t, a) ==
    DictSet(t, K_name,
            IF Truthy(DictGetOr(t, K_name, VNone)) THEN DictGet(t, K_name)
            ELSE DictGetOr(a, K_name, VStr(<<>>)))

\* test_dict[key] = value, or the exception that computing value raised
SetOrRaise(t, key, val) ==
    IF IsErr(t) THEN t ELSE IF IsErr(val) THEN val ELSE VDict(DictSet(t.v, key, val))

ApiVariables(t, a) ==
    extend_variables(DictGetOr(a, K_variables, VList(<<>>)), DictGetOr(t, K_variables, EmptyDict))

ApiValidators(def_validators, ref_validators) ==
    IF IsErr(def_validators) THEN def_validators
    ELSE IF IsErr(ref_validators) THEN ref_validators
    ELSE extend_validators(def_validators.v, ref_validators.v)

ApiValidate(t, a) ==
    ApiValidators(ParsedValidators(DictGetOr(a, K_validate, VList(<<>>)).v),
                  ParsedValidators(DictGetOr(t, K_validate, VList(<<>>)).v))

ApiExtract(t, a) ==
    extend_variables(DictGetOr(a, K_extract, EmptyDict), DictGetOr(t, K_extract, EmptyDict))

\* an extension that leaves the request of the API definition as it is
ApiRequest_AsDefined(a) == DictGetOr(a, K_request, EmptyDict)

\* test_dict["request"] = api_def_dict.pop("request", {}), and the verify
\* of the API definition written into it
ApiRequest(a) ==
    IF DictHas(a, K_verify)
    THEN VDict(DictSet(DictGetOr(a, K_request, EmptyDict).v, K_verify, DictGet(a, K_verify)))
    ELSE DictGetOr(a, K_request, EmptyDict)

\* if api_def_dict.get("base_url"): test_dict["base_url"] = api_def_dict["base_url"]
ApiBaseUrl(t, a) ==
    IF IsErr(t) THEN t
    ELSE IF Truthy(DictGetOr(a, K_base_url, VNone))
    THEN VDict(DictSet(t.v, K_base_url, DictGet(a, K_base_url)))
    ELSE t

\* the hooks of the API definition and of the test, each once
ApiHooks(t, a, key, original) ==
    IF IsErr(t) THEN t
    ELSE IF Len(Distinct(DictGetOr(a, key, VList(<<>>)).v
                           \o DictGetOr(original, key, VList(<<>>)).v, <<>>)) > 0
    THEN VDict(DictSet(t.v, key,
                       VList(Distinct(DictGetOr(a, key, VList(<<>>)).v
                                        \o DictGetOr(original, key, VList(<<>>)).v, <<>>))))
    ELSE t

\* what api_def_dict has left when test_dict.update(api_def_dict) is reached
ApiLeft(a) ==
    SelectSeq(a, LAMBDA it : it.key \notin {K_name, K_variables, K_validate, K_extract,
                                            K_request, K_setup_hooks, K_teardown_hooks})

\* test_dict.update(api_def_dict)
ApiUpdate(t, a) ==
    IF IsErr(t) THEN t ELSE VDict(DictUpdate(t.v, ApiLeft(a)))

\* _extend_with_api(test_dict, api_def_dict): test_dict as the call leaves
\* it, or the exception raised
extend_with_api(test_dict, api_def_dict) ==
    ApiUpdate(
        ApiHooks(
            ApiHooks(
                ApiBaseUrl(
                    SetOrRaise(
                        SetOrRaise(
                            SetOrRaise(
                                SetOrRaise(VDict(ApiName(test_dict.v, api_def_dict.v)),
                                           K_variables,
                                           ApiVariables(test_dict.v, api_def_dict.v)),
                                K_validate, ApiValidate(test_dict.v, api_def_dict.v)),
                            K_extract, ApiExtract(test_dict.v, api_def_dict.v)),
                        K_request, ApiRequest(api_def_dict.v)),
                    api_def_dict.v),
                api_def_dict.v, K_setup_hooks, test_dict.v),
            api_def_dict.v, K_teardown_hooks, test_dict.v),
        api_def_dict.v)

----------------------------------------------------------------------------
(* one round of __prepare_testcase_tests *)

PreparedApiTest(extended, test_dict_variables, cfg, session, fm) ==
    IF IsErr(extended) THEN TestOutcome(extended, session, {})
    ELSE SessionTest(WithVerify(extended.v, DictGetOr(cfg.v, K_verify, VBool(TRUE))),
                     test_dict_variables, session, fm)

\* a teststep with an API definition: api_def is popped and the teststep
\* extended with it
PrepareApiTest(test_dict, cfg, session, fm) ==
    PreparedApiTest(
        extend_with_api(
            VDict(DictWithout(WithBaseUrl(WithVariables(test_dict,
                                                        DictGetOr(cfg.v, K_variables, EmptyDict)),
                                          DictGetOr(cfg.v, K_base_url, VStr(<<>>))),
                              K_api_def)),
            DictGet(test_dict.v, K_api_def)),
        DictGet(WithVariables(test_dict, DictGetOr(cfg.v, K_variables, EmptyDict)), K_variables),
        cfg, session, fm)

\* one test_dict of the for loop of __prepare_testcase_tests: a teststep
\* with a request of its own, or with an API definition
PrepareTest(test_dict, cfg, session, fm) ==
    IF DictHas(test_dict.v, K_api_def) THEN PrepareApiTest(test_dict, cfg, session, fm)
    ELSE SessionTest(
        WithVerify(WithBaseUrl(WithVariables(test_dict,
                                             DictGetOr(cfg.v, K_variables, EmptyDict)),
                               DictGetOr(cfg.v, K_base_url, VStr(<<>>))),
                   DictGetOr(cfg.v, K_verify, VBool(TRUE))),
        DictGet(WithVariables(test_dict, DictGetOr(cfg.v, K_variables, EmptyDict)), K_variables),
        session, fm)

----------------------------------------------------------------------------
(* _parse_testcase on a test case of plain teststeps *)

MaxSteps == 2

t_ == <<"t">>
n_ == <<"n">>
g_ == <<"g">>
Url(name) == VStr(<<"/", "$">> \o name)
STR_response == <<"r", "e", "s", "p", "o", "n", "s", "e">>
JSON_PATH == VStr(<<"c", "o", "n", "t", "e", "n", "t", ".", "t">>)

\* the variables and the request of a teststep: a reference to the name a
\* teststep extracts, to the config's variable, to a variable of the step,
\* to that name where no step declares it, to the response
StepBodies ==
    {<<Item(K_request, VDict(<<Item(K_url, Url(t_))>>))>>,
     <<Item(K_request, VDict(<<Item(K_url, Url(g_))>>))>>,
     <<Item(K_variables, VDict(<<Item(VStr(n_), VInt(1))>>)),
       Item(K_request, VDict(<<Item(K_url, Url(n_))>>))>>,
     <<Item(K_request, VDict(<<Item(K_url, Url(n_))>>))>>,
     <<Item(K_request, VDict(<<Item(K_url, Url(STR_response))>>))>>}

\* no extract, extract as a list of dicts, extract as a dict
StepExtracts ==
    {<<>>,
     <<Item(K_extract, VList(<<VDict(<<Item(VStr(t_), JSON_PATH)>>)>>))>>,
     <<Item(K_extract, VDict(<<Item(VStr(t_), JSON_PATH)>>))>>}

TestDicts == {VDict(<<Item(K_name, VStr(<<"s">>))>> \o b \o e) : b \in StepBodies, e \in StepExtracts}

RawConfigs ==
    {EmptyDict,
     VDict(<<Item(K_name, VStr(<<"c">>)),
             Item(K_variables, VDict(<<Item(VStr(g_), VInt(5))>>)),
             Item(K_base_url, VStr(<<"h">>))>>),
     VDict(<<Item(K_variables, VList(<<VDict(<<Item(VStr(g_), VStr(STR_rnd))>>)>>)),
             Item(K_verify, VBool(FALSE))>>)}

ProjectVariables == {<<>>, <<Item(VStr(g_), VInt(9))>>}

SuiteIdleButProject ==
    /\ testsuite_config = VNone /\ testcases = <<>>
    /\ testcase_idx = 0 /\ parsed_testcase_list = <<>>

InitCase ==
    /\ pc = "config"
    /\ functions_mapping = UserFunctions
    /\ project_variables \in ProjectVariables
    /\ config \in RawConfigs
    /\ tests \in UNION {[1..n -> TestDicts] : n \in 0..MaxSteps}
    /\ test_idx = 0
    /\ session_variables = <<>>
    /\ prepared_testcase_tests = <<>>
    /\ check_variables_set = {}
    /\ content = VNone /\ prepared = VNone
    /\ variables_mapping = <<>>
    /\ result = VNone
    /\ cached_functions_mapping = NoCache
    /\ ncalls = 0
    /\ ResolverIdle /\ CacheIdle /\ SuiteIdleButProject

\* the return of _parse_testcase
ParsedTestcase(cfg, teststeps) ==
    VDict(<<Item(VStr(<<"c", "o", "n", "f", "i", "g">>), cfg),
            Item(VStr(<<"t", "e", "s", "t", "s", "t", "e", "p", "s">>), VList(teststeps))>>)

\* the for loop of __prepare_testcase_tests goes on or ends, and
\* _parse_testcase returns
NextTest(teststeps) ==
    IF test_idx + 1 >= Len(tests)
    THEN pc' = "done" /\ result' = ParsedTestcase(config, teststeps)
    ELSE pc' = "tests" /\ result' = result

\* prepared_config = __prepare_config(testcase["config"], project_mapping)
PreparedConfig(p) ==
    /\ IF IsErr(p)
       THEN pc' = "raised" /\ result' = p /\ config' = config
       ELSE /\ config' = p
            /\ IF Len(tests) = 0
               THEN pc' = "done" /\ result' = ParsedTestcase(p, <<>>)
               ELSE pc' = "tests" /\ result' = result
    /\ UNCHANGED <<tests, test_idx, session_variables, prepared_testcase_tests,
                   functions_mapping, variables_mapping, prepareVars, resolverVars,
                   evalVars, cacheVars, suiteVars>>

PrepareConfig ==
    /\ pc = "config"
    /\ PreparedConfig(prepare_config(config, project_variables, functions_mapping))

\* one round of the for loop of __prepare_testcase_tests
PreparedTestDict(o) ==
    /\ test_idx' = test_idx + 1
    /\ session_variables' = o.session
    /\ check_variables_set' = o.known
    /\ IF IsErr(o.test)
       THEN pc' = "raised" /\ result' = o.test
            /\ prepared_testcase_tests' = prepared_testcase_tests
       ELSE /\ prepared_testcase_tests' = Append(prepared_testcase_tests, o.test)
            /\ NextTest(Append(prepared_testcase_tests, o.test))
    /\ UNCHANGED <<config, tests, content, prepared, functions_mapping, variables_mapping,
                   resolverVars, evalVars, cacheVars, suiteVars>>

PrepareTestDict ==
    /\ pc = "tests"
    /\ PreparedTestDict(PrepareTest(tests[test_idx + 1], config, session_variables,
                                    functions_mapping))

NextCase == PrepareConfig \/ PrepareTestDict

SpecCase == InitCase /\ [][NextCase]_vars

\* the names a teststep extracts, read off its extract block
ExtractNames(test_dict) ==
    IF ~DictHas(test_dict.v, K_extract) THEN {}
    ELSE IF DictGet(test_dict.v, K_extract).k = "dict"
    THEN KeyNames(DictGet(test_dict.v, K_extract))
    ELSE UNION {KeyNames(DictGet(test_dict.v, K_extract).v[i]) :
                    i \in 1..Len(DictGet(test_dict.v, K_extract).v)}

\* the names teststep k may reference: the variables it and the config
\* declare, the names teststeps 1..k extract, request and response
ExpectedKnown(k) ==
    KeyNames(DictGetOr(tests[k].v, K_variables, EmptyDict))
        \cup KeyNames(DictGetOr(config.v, K_variables, EmptyDict))
        \cup UNION {ExtractNames(tests[j]) : j \in 1..k}
        \cup {K_request.v, STR_response}

RequestUrl(test_dict) == DictGet(DictGet(test_dict.v, K_request).v, K_url)

\* C10: the teststeps are prepared in document order, and the known set of
\* teststep k is what it and the config declare, what teststeps 1..k extract,
\* request and response: teststep k raises VariableNotFound exactly when it
\* references a name outside that set.
C10_KnownVariablesInOrder ==
    (pc \in {"tests", "done", "raised"} /\ test_idx > 0) =>
        /\ check_variables_set = ExpectedKnown(test_idx)
        /\ pc = "raised" <=>
              \E n \in ReferencedNames(tests[test_idx]) : n \notin ExpectedKnown(test_idx)
        /\ pc = "raised" =>
              /\ IsErrKind(result, "VariableNotFound")
              /\ result.v.arg \in ReferencedNames(tests[test_idx])
              /\ result.v.arg \notin ExpectedKnown(test_idx)
        /\ Len(prepared_testcase_tests) = IF pc = "raised" THEN test_idx - 1 ELSE test_idx
        /\ \A j \in 1..Len(prepared_testcase_tests) :
              RequestUrl(prepared_testcase_tests[j]).v.raw_string = RequestUrl(tests[j]).v

C10_Witness ==
    /\ pc = "done"
    /\ test_idx = 2
    /\ ExtractNames(tests[1]) = {t_}
    /\ ExtractNames(tests[2]) = {}
    /\ RequestUrl(tests[2]) = Url(t_)
    /\ RequestUrl(tests[1]) = Url(g_)
    /\ t_ \in check_variables_set

----------------------------------------------------------------------------
(* The calls the test-suite driver makes, as functions of their arguments *)

K_config == VStr(<<"c", "o", "n", "f", "i", "g">>)
K_teststeps == VStr(<<"t", "e", "s", "t", "s", "t", "e", "p", "s">>)
K_testcase == VStr(<<"t", "e", "s", "t", "c", "a", "s", "e">>)
K_testcase_def == VStr(K_testcase.v \o <<"_", "d", "e", "f">>)
K_parameters == VStr(<<"p", "a", "r", "a", "m", "e", "t", "e", "r", "s">>)

\* a dict of variables as the mapping of names the evaluator reads
BareItems(items) == [i \in 1..Len(items) |-> Item(items[i].key.v, items[i].val)]

RECURSIVE ResolvePass(_, _, _, _, _, _, _)

ResolvePassResolved(vm, ign, parsed, i, o) ==
    IF IsErr(o.val)
    THEN Outcome(o.val, [vm EXCEPT ![i].val = o.obj], o.cache, o.calls)
    ELSE ResolvePass([vm EXCEPT ![i].val = o.obj], ign, Append(parsed, Item(vm[i].key, o.val)),
                     i + 1, TRUE, o.cache, o.calls)

\* the for loop of parse_variables_mapping from the i-th name on, and the
\* passes after it; progressed: the pass has resolved a name. A pass that
\* resolves nothing is repeated for ever: the call does not return.
ResolvePass(vm, ign, parsed, i, progressed, cache, calls) ==
    IF i > Len(vm)
    THEN IF Len(parsed) = Len(vm) THEN Outcome(VDict(parsed), vm, cache, calls)
         ELSE IF ~progressed THEN Outcome(Err("never returns", <<>>), vm, cache, calls)
         ELSE ResolvePass(vm, ign, parsed, 1, FALSE, cache, calls)
    ELSE IF DictHas(parsed, vm[i].key)
    THEN ResolvePass(vm, ign, parsed, i + 1, progressed, cache, calls)
    ELSE IF vm[i].key.v \in extract_variables(vm[i].val)
    THEN IF ign
         THEN ResolvePass(vm, ign, Append(parsed, vm[i]), i + 1, TRUE, cache, calls)
         ELSE Outcome(Err("VariableNotFound", vm[i].key.v), vm, cache, calls)
    ELSE IF \E v \in extract_variables(vm[i].val) : ~DictHas(parsed, VStr(v))
    THEN ResolvePass(vm, ign, parsed, i + 1, progressed, cache, calls)
    ELSE ResolvePassResolved(vm, ign, parsed, i,
                             parse_lazy_data(vm[i].val, BareItems(parsed), cache, calls))

\* parse_variables_mapping(variables_mapping, ignore) on a dict of variables:
\* the dict returned or the exception raised, the mapping as the evaluations
\* left it, the cache and the calls
parse_variables_mapping(vm, ign, cache, calls) ==
    IF Len(vm) = 0 THEN Outcome(EmptyDict, vm, cache, calls)
    ELSE ResolvePass(vm, ign, <<>>, 1, FALSE, cache, calls)

RECURSIVE PrepareTests(_, _, _, _, _)
PrepareTestsNext(rest, cfg, fm, acc, o) ==
    IF IsErr(o.test) THEN o.test
    ELSE PrepareTests(rest, cfg, o.session, fm, Append(acc, o.test))

\* __prepare_testcase_tests(tests, config, project_mapping)
PrepareTests(test_dicts, cfg, session, fm, acc) ==
    IF Len(test_dicts) = 0 THEN VList(acc)
    ELSE PrepareTestsNext(Tail(test_dicts), cfg, fm, acc,
                          PrepareTest(test_dicts[1], cfg, session, fm))

ParseTestcaseTests(cfg, teststeps) ==
    IF IsErr(teststeps) THEN teststeps
    ELSE VDict(<<Item(K_config, cfg), Item(K_teststeps, teststeps)>>)

ParseTestcaseConfig(cfg, teststeps, fm) ==
    IF IsErr(cfg) THEN cfg
    ELSE ParseTestcaseTests(cfg, PrepareTests(teststeps, cfg, <<>>, fm, <<>>))

\* _parse_testcase(testcase, project_mapping): {"config", "teststeps"}, or
\* the exception raised
parse_testcase(testcase, project_vars, fm) ==
    IF ~DictHas(testcase.v, K_teststeps) THEN Err("KeyError", K_teststeps.v)
    ELSE ParseTestcaseConfig(
        prepare_config(DictGetOr(testcase.v, K_config, EmptyDict), project_vars, fm),
        DictGet(testcase.v, K_teststeps).v, fm)

----------------------------------------------------------------------------
(* parse_parameters *)

\* eval_lazy_data(content, variables_mapping, functions_mapping)
EvalPrepared(p, vm, cache, calls) ==
    IF IsErr(p) THEN Outcome(p, p, cache, calls)
    ELSE parse_lazy_data(p, BareItems(vm.v), cache, calls)

eval_lazy_data(c, vm, fm, cache, calls) ==
    EvalPrepared(prepare_lazy_data(c, fm, KeyNames(vm), FALSE), vm, cache, calls)

RECURSIVE Zip(_, _, _)
\* dict(zip(parameter_name_list, parameter_item))
Zip(names, item, acc) ==
    IF Len(names) = 0 \/ Len(item) = 0 THEN VDict(acc)
    ELSE Zip(Tail(names), Tail(item), DictSet(acc, VStr(names[1]), item[1]))

\* the rows of a data list: an item that is not a list is a list of one
DataListRows(names, parameter_content) ==
    [i \in 1..Len(parameter_content) |->
        Zip(names,
            IF parameter_content[i].k = "list" THEN parameter_content[i].v
            ELSE <<parameter_content[i]>>,
            <<>>)]

RECURSIVE SubsetByName(_, _, _)
\* {key: parameter_item[key] for key in parameter_name_list}
SubsetByName(names, item, acc) ==
    IF Len(names) = 0 THEN VDict(acc)
    ELSE IF ~DictHas(item, VStr(names[1])) THEN Err("KeyError", names[1])
    ELSE SubsetByName(Tail(names), item,
                      DictSet(acc, VStr(names[1]), DictGet(item, VStr(names[1]))))

\* parameter_dict after one item of an evaluated parameter: an item that
\* is no dict and no list under a composite name leaves the variable as the
\* round before left it (unbound in the first round of the call)
ParameterDict(names, parameter_item, parameter_dict) ==
    CASE parameter_item.k = "dict" -> SubsetByName(names, parameter_item.v, <<>>)
      [] parameter_item.k = "list" -> Zip(names, parameter_item.v, <<>>)
      [] OTHER -> IF Len(names) = 1
                  THEN VDict(<<Item(VStr(names[1]), parameter_item)>>)
                  ELSE parameter_dict

RECURSIVE EvaluatedRows(_, _, _, _)
EvaluatedRowsNext(names, rest, acc, row) ==
    IF IsErr(row) THEN [rows |-> row, parameter_dict |-> row]
    ELSE EvaluatedRows(names, rest, row, Append(acc, row))

\* the rows of an evaluated parameter, and parameter_dict after them
EvaluatedRows(names, items, parameter_dict, acc) ==
    IF Len(items) = 0 THEN [rows |-> VList(acc), parameter_dict |-> parameter_dict]
    ELSE EvaluatedRowsNext(names, Tail(items), acc,
                           ParameterDict(names, items[1], parameter_dict))

\* the rows of lists[1] each merged with each row of the product of the rest
Cross(rows, rest) ==
    [i \in 1..(Len(rows) * Len(rest)) |->
        VDict(DictUpdate(rows[((i - 1) \div Len(rest)) + 1].v,
                         rest[((i - 1) % Len(rest)) + 1].v))]

RECURSIVE Product(_)
Product(lists) ==
    IF Len(lists) = 0 THEN <<EmptyDict>> ELSE Cross(lists[1], Product(Tail(lists)))

\* utils.gen_cartesian_product(*args): no list gives no row, one list is
\* returned as it is
gen_cartesian_product(lists) ==
    IF Len(lists) = 0 THEN <<>>
    ELSE IF Len(lists) = 1 THEN lists[1]
    ELSE Product(lists)

RECURSIVE ParameterLoop(_, _, _, _, _, _, _)

ParameterRows(items, vm, fm, acc, t, cache, calls) ==
    IF IsErr(t.rows) THEN Outcome(t.rows, VNone, cache, calls)
    ELSE ParameterLoop(Tail(items), vm, fm, t.parameter_dict, Append(acc, t.rows.v),
                       cache, calls)

ParameterEvaluated(items, vm, fm, parameter_dict, acc, e) ==
    IF IsErr(e.val) THEN Outcome(e.val, VNone, e.cache, e.calls)
    ELSE IF e.val.k # "list" THEN Outcome(Err("ParamsError", <<>>), VNone, e.cache, e.calls)
    ELSE ParameterRows(items, vm, fm, acc,
                       EvaluatedRows(Split(items[1].key.v, "-"), e.val.v, parameter_dict, <<>>),
                       e.cache, e.calls)

ParameterResolved(items, vm, fm, parameter_dict, acc, r) ==
    IF IsErr(r.val) THEN Outcome(r.val, VNone, r.cache, r.calls)
    ELSE ParameterEvaluated(items, vm, fm, parameter_dict, acc,
                            eval_lazy_data(items[1].val, r.val, fm, r.cache, r.calls))

\* the for loop of parse_parameters from the parameter items[1] on
ParameterLoop(items, vm, fm, parameter_dict, acc, cache, calls) ==
    IF Len(items) = 0
    THEN Outcome(VList(gen_cartesian_product(acc)), VNone, cache, calls)
    ELSE IF items[1].val.k = "list"
    THEN ParameterLoop(Tail(items), vm, fm, parameter_dict,
                       Append(acc, DataListRows(Split(items[1].key.v, "-"), items[1].val.v)),
                       cache, calls)
    ELSE ParameterResolved(items, vm, fm, parameter_dict, acc,
                           parse_variables_mapping(vm.v, FALSE, cache, calls))

ParametersMapped(parameters, vm, fm, cache, calls) ==
    IF IsErr(parameters) THEN Outcome(parameters, VNone, cache, calls)
    ELSE ParameterLoop(parameters.v, vm, fm, Err("UnboundLocalError", <<>>), <<>>,
                       cache, calls)

\* parse_parameters(parameters, variables_mapping, functions_mapping): the
\* list of rows or the exception raised
parse_parameters(parameters, vm, fm, cache, calls) ==
    ParametersMapped(ensure_mapping_format(parameters), vm, fm, cache, calls)

----------------------------------------------------------------------------
(* __get_parsed_testsuite_testcases: one round of the loop over the children *)

\* d.setdefault(key, val)
SetDefault(items, key, val) == IF DictHas(items, key) THEN items ELSE DictSet(items, key, val)

\* if "weight" in testcase: parsed_testcase["config"]["weight"] = testcase["weight"]
WithWeight(cfg, testcase) ==
    IF DictHas(testcase.v, K_weight)
    THEN DictSet(cfg, K_weight, DictGet(testcase.v, K_weight))
    ELSE cfg

\* parsed_testcase["config"] with the name, the weight and the base_url
ChildConfig(testcase_name, testcase, testsuite_base_url) ==
    SetDefault(
        WithWeight(
            DictSet(DictGetOr(DictGet(testcase.v, K_testcase_def).v, K_config, EmptyDict).v,
                    K_name, testcase_name),
            testcase),
        K_base_url, testsuite_base_url)

\* the merge that would let the child entry's value override the suite's
TestcaseConfigVariables_CaseWins(testcase, testsuite_config_variables) ==
    extend_variables(testsuite_config_variables,
                     DictGetOr(testcase.v, K_variables, EmptyDict))

\* 1, testsuite config => testcase config
TestcaseConfigVariables(testcase, testsuite_config_variables) ==
    extend_variables(DictGetOr(testcase.v, K_variables, EmptyDict),
                     testsuite_config_variables)

\* 2, testcase config > testcase_def config
OverridedVariables(cfg, testcase_config_variables) ==
    extend_variables(DictGetOr(cfg, K_variables, EmptyDict), testcase_config_variables)

\* parsed_testcase after the merges: the test case definition with its
\* config and, next to the config, the path
ParsedTestcaseDef(testcase, cfg, overrided) ==
    VDict(DictSet(
        DictSet(DictGet(testcase.v, K_testcase_def).v, K_config,
                VDict(IF Truthy(overrided)
                      THEN DictSet(DictWithout(cfg, K_variables), K_variables, overrided)
                      ELSE DictWithout(cfg, K_variables))),
        K_path, DictGet(testcase.v, K_testcase)))

\* what one round leaves: the test cases appended (or the exception
\* raised), the merged variables as the evaluations left them, the cache
\* and the calls
ChildOutcome(cases, variables, cache, calls) ==
    [cases |-> cases, variables |-> variables, cache |-> cache, calls |-> calls]

\* testcase_copied with the row's variables over the resolved ones
TestcaseCopied(parsed_testcase, parsed_config_variables, parameter_variables) ==
    VDict(DictSet(parsed_testcase.v, K_config,
                  VDict(DictSet(DictGet(parsed_testcase.v, K_config).v, K_variables,
                                extend_variables(parsed_config_variables,
                                                 parameter_variables)))))

\* testcase_copied["config"]["variables"] after _parse_testcase
CopiedVariables(testcase_copied, project_vars) ==
    VDict(OverriddenConfig(DictGet(testcase_copied.v, K_config), project_vars))

WithName(parsed, o) ==
    IF IsErr(o.val) THEN o
    ELSE Outcome(VDict(DictSet(parsed.v, K_config,
                               VDict(DictSet(DictGet(parsed.v, K_config).v, K_name, o.val)))),
                 o.obj, o.cache, o.calls)

\* parsed_testcase_copied with its config name evaluated
NamedTestcase(parsed, copied_config, cache, calls) ==
    IF IsErr(parsed) THEN Outcome(parsed, VNone, cache, calls)
    ELSE IF ~DictHas(copied_config.v, K_variables)
    THEN Outcome(Err("KeyError", K_variables.v), VNone, cache, calls)
    ELSE WithName(parsed,
                  parse_lazy_data(DictGet(DictGet(parsed.v, K_config).v, K_name),
                                  BareItems(DictGet(copied_config.v, K_variables).v),
                                  cache, calls))

\* one parameter_variables of the product
ParameterizedTestcase(testcase_copied, project_vars, fm, cache, calls) ==
    NamedTestcase(parse_testcase(testcase_copied, project_vars, fm),
                  CopiedVariables(testcase_copied, project_vars), cache, calls)

RECURSIVE ParameterRounds(_, _, _, _, _, _, _, _, _)
ParameterRoundsNext(parsed_testcase, resolved, rest, variables, project_vars, fm, acc, o) ==
    IF IsErr(o.val) THEN ChildOutcome(o.val, variables, o.cache, o.calls)
    ELSE ParameterRounds(parsed_testcase, resolved, rest, variables, project_vars, fm,
                         Append(acc, o.val), o.cache, o.calls)

\* for parameter_variables in cartesian_product_parameters
ParameterRounds(parsed_testcase, resolved, rows, variables, project_vars, fm, acc, cache, calls) ==
    IF Len(rows) = 0 THEN ChildOutcome(VList(acc), variables, cache, calls)
    ELSE ParameterRoundsNext(parsed_testcase, resolved, Tail(rows), variables, project_vars,
                             fm, acc,
                             ParameterizedTestcase(
                                 TestcaseCopied(parsed_testcase, resolved, rows[1]),
                                 project_vars, fm, cache, calls))

ChildParameters(parsed_testcase, r, product, project_vars, fm) ==
    IF IsErr(product.val) THEN ChildOutcome(product.val, r.obj, product.cache, product.calls)
    ELSE ParameterRounds(parsed_testcase, r.val, product.val.v, r.obj, project_vars, fm,
                         <<>>, product.cache, product.calls)

ChildSingle(parsed, r) ==
    ChildOutcome(IF IsErr(parsed) THEN parsed ELSE VList(<<parsed>>),
                 r.obj, r.cache, r.calls)

\* the round once the merged variables are resolved
ChildResolved(testcase, parsed_testcase, r, project_vars, fm) ==
    IF IsErr(r.val) THEN ChildOutcome(r.val, r.obj, r.cache, r.calls)
    ELSE IF DictHas(testcase.v, K_parameters) /\ Truthy(DictGet(testcase.v, K_parameters))
    THEN ChildParameters(parsed_testcase, r,
                         parse_parameters(DictGet(testcase.v, K_parameters), r.val, fm,
                                          r.cache, r.calls),
                         project_vars, fm)
    ELSE ChildSingle(parse_testcase(parsed_testcase, project_vars, fm), r)

\* parse_variables_mapping(overrided_testcase_config_variables, functions):
\* the functions are passed in the place of ignore
ChildOverrided(testcase, cfg, r, project_vars, fm) ==
    ChildResolved(testcase, ParsedTestcaseDef(testcase, cfg, VDict(r.obj)), r,
                  project_vars, fm)

ChildMerged(testcase, cfg, overrided, project_vars, fm, cache, calls) ==
    ChildOverrided(testcase, cfg,
                   parse_variables_mapping(overrided.v, DOMAIN fm # {}, cache, calls),
                   project_vars, fm)

\* one round of the for loop over testcases.items()
ChildRound(testcase_name, testcase, suite_config, project_vars, fm, cache, calls) ==
    ChildMerged(testcase,
                ChildConfig(testcase_name, testcase,
                            DictGetOr(suite_config.v, K_base_url, VNone)),
                OverridedVariables(
                    ChildConfig(testcase_name, testcase,
                                DictGetOr(suite_config.v, K_base_url, VNone)),
                    TestcaseConfigVariables(testcase,
                                            DictGetOr(suite_config.v, K_variables, EmptyDict))),
                project_vars, fm, cache, calls)

\* the suite's variables are the objects the merged variables hold: an
\* evaluation of a child's variables leaves its marks on them
SameObject(suite_value, merged_value) ==
    /\ suite_value.k = "lazy" /\ merged_value.k = "lazy"
    /\ suite_value.v.raw_string = merged_value.v.raw_string

SuiteVariablesAfter(suite_variables, variables) ==
    VDict([i \in 1..Len(suite_variables) |->
              IF SameObject(suite_variables[i].val,
                            DictGetOr(variables, suite_variables[i].key, VNone))
              THEN Item(suite_variables[i].key, DictGet(variables, suite_variables[i].key))
              ELSE suite_variables[i]])

SuiteConfigAfter(suite_config, variables) ==
    IF ~DictHas(suite_config.v, K_variables) THEN suite_config
    ELSE VDict(DictSet(suite_config.v, K_variables,
                       SuiteVariablesAfter(DictGet(suite_config.v, K_variables).v,
                                           variables)))

----------------------------------------------------------------------------
(* _parse_testsuite on a suite of test case entries *)

MaxCases == 2

v_ == <<"v">>
u_ == <<"u">>
w_ == <<"w">>
p_ == <<"p">>
NoFunctions == [n \in {} |-> n]

\* a suite that declares v and a variable calling a function, a suite
\* that declares another name only, a suite with an empty config
SuiteConfigs ==
    {VDict(<<Item(K_name, VStr(<<"s">>)),
             Item(K_variables, VDict(<<Item(VStr(v_), VInt(1)), Item(VStr(u_), VStr(STR_rnd))>>)),
             Item(K_base_url, VStr(<<"h">>))>>),
     VDict(<<Item(K_variables, VDict(<<Item(VStr(u_), VInt(5))>>))>>),
     EmptyDict}

TESTCASE_PATH == VStr(<<"t", ".", "y", "m", "l">>)
TESTSTEPS == VList(<<VDict(<<Item(K_name, VStr(<<"s">>)),
                             Item(K_request, VDict(<<Item(K_url, Url(v_))>>))>>)>>)

\* the test case definition an entry refers to: with variables in a config
\* of its own, and without a config
TestcaseDefs ==
    <<VDict(<<Item(K_config, VDict(<<Item(K_variables, VDict(<<Item(VStr(v_), VInt(3))>>))>>)),
              Item(K_teststeps, TESTSTEPS)>>),
      VDict(<<Item(K_teststeps, TESTSTEPS)>>)>>

\* what an entry declares besides: no variables, the name the suite may
\* declare too, a name of its own referring to v
EntryVariables ==
    {<<>>,
     <<Item(K_variables, VDict(<<Item(VStr(v_), VInt(2)), Item(VStr(u_), VInt(6))>>))>>,
     <<Item(K_variables, VDict(<<Item(VStr(w_), VStr(<<"$">> \o v_))>>))>>}

EntryParameters ==
    {<<>>, <<Item(K_parameters, VDict(<<Item(VStr(p_), VList(<<VInt(1), VInt(2)>>))>>))>>}

\* an entry without a weight, of a definition with a config, and an entry
\* with a weight, of a definition without one
EntryDefs ==
    {<<Item(K_testcase, TESTCASE_PATH), Item(K_testcase_def, TestcaseDefs[1])>>,
     <<Item(K_testcase, TESTCASE_PATH), Item(K_weight, VInt(3)),
       Item(K_testcase_def, TestcaseDefs[2])>>}

Entries == {VDict(d \o e \o q) : d \in EntryDefs, e \in EntryVariables, q \in EntryParameters}

\* the name of the i-th entry of the suite
EntryName(i) == VStr(<<"c">> \o NatToStr(i))

InitSuite ==
    /\ pc = "suite"
    /\ functions_mapping \in {UserFunctions, NoFunctions}
    /\ project_variables \in ProjectVariables
    /\ testsuite_config \in SuiteConfigs
    /\ \E n \in 0..MaxCases : \E es \in [1..n -> Entries] :
          testcases = [i \in 1..n |-> Item(EntryName(i), es[i])]
    /\ testcase_idx = 0
    /\ parsed_testcase_list = <<>>
    /\ check_variables_set = {}
    /\ content = VNone /\ prepared = VNone
    /\ variables_mapping = <<>>
    /\ result = VNone
    /\ cached_functions_mapping = NoCache
    /\ ncalls = 0
    /\ ResolverIdle /\ CacheIdle /\ StepsIdle

\* prepared_config = __prepare_config(testsuite["config"], project_mapping)
PreparedSuiteConfig(p) ==
    /\ IF IsErr(p)
       THEN pc' = "raised" /\ result' = p /\ testsuite_config' = testsuite_config
       ELSE pc' = "testcases" /\ result' = result /\ testsuite_config' = p
    /\ UNCHANGED <<project_variables, testcases, testcase_idx, parsed_testcase_list,
                   functions_mapping, variables_mapping, prepareVars, resolverVars,
                   evalVars, cacheVars, stepVars>>

PrepareSuiteConfig ==
    /\ pc = "suite"
    /\ PreparedSuiteConfig(prepare_config(testsuite_config, project_variables,
                                          functions_mapping))

\* one round of the for loop of __get_parsed_testsuite_testcases; a call of
\* parse_variables_mapping that does not return leaves the driver in it
ParsedChild(o) ==
    /\ testcase_idx' = testcase_idx + 1
    /\ testsuite_config' = SuiteConfigAfter(testsuite_config, o.variables)
    /\ cached_functions_mapping' = o.cache
    /\ ncalls' = o.calls
    /\ IF IsErr(o.cases)
       THEN /\ pc' = IF IsErrKind(o.cases, "never returns") THEN "hung" ELSE "raised"
            /\ result' = o.cases
            /\ parsed_testcase_list' = parsed_testcase_list
       ELSE /\ pc' = pc /\ result' = result
            /\ parsed_testcase_list' = parsed_testcase_list \o o.cases.v
    /\ UNCHANGED <<project_variables, testcases, functions_mapping, variables_mapping,
                   prepareVars, resolverVars, cacheVars, stepVars>>

ParseSuiteTestcase ==
    /\ pc = "testcases"
    /\ testcase_idx < Len(testcases)
    /\ ParsedChild(ChildRound(testcases[testcase_idx + 1].key, testcases[testcase_idx + 1].val,
                              testsuite_config, project_variables, functions_mapping,
                              cached_functions_mapping, ncalls))

\* return parsed_testcase_list
ReturnSuite ==
    /\ pc = "testcases"
    /\ testcase_idx = Len(testcases)
    /\ pc' = "done"
    /\ result' = VList(parsed_testcase_list)
    /\ UNCHANGED <<functions_mapping, variables_mapping, prepareVars, resolverVars,
                   evalVars, cacheVars, stepVars, suiteVars>>

NextSuite == PrepareSuiteConfig \/ ParseSuiteTestcase \/ ReturnSuite

SpecSuite == InitSuite /\ [][NextSuite]_vars

\* the config of the j-th test case emitted, its variables, and the entry
\* it was emitted for (the config is named after the entry)
CaseConfig(j) == DictGet(parsed_testcase_list[j].v, K_config).v
CaseVariables(j) == DictGetOr(CaseConfig(j), K_variables, EmptyDict)
EntryOf(j) ==
    testcases[CHOOSE i \in 1..Len(testcases) :
                  testcases[i].key = DictGet(CaseConfig(j), K_name)].val
DeclaredBy(d) == KeyNames(DictGetOr(d.v, K_variables, EmptyDict))
Declared(d, name) == DictGet(DictGet(d.v, K_variables).v, VStr(name))
RawOf(x) == IF x.k = "lazy" THEN VStr(x.v.raw_string) ELSE x

C9_PathAndWeight ==
    \A j \in 1..Len(parsed_testcase_list) :
        /\ DictHas(CaseConfig(j), K_path)
        /\ DictGet(CaseConfig(j), K_path) = DictGet(EntryOf(j).v, K_testcase)
        /\ DictHas(EntryOf(j).v, K_weight) =>
              /\ DictHas(CaseConfig(j), K_weight)
              /\ DictGet(CaseConfig(j), K_weight) = DictGet(EntryOf(j).v, K_weight)

\* the half of C9 about the weight
C9_Weight ==
    \A j \in 1..Len(parsed_testcase_list) :
        DictHas(EntryOf(j).v, K_weight) =>
            /\ DictHas(CaseConfig(j), K_weight)
            /\ DictGet(CaseConfig(j), K_weight) = DictGet(EntryOf(j).v, K_weight)

----------------------------------------------------------------------------
(* parse_parameters on lists of {name: source} entries *)

MaxParams == 2

ab_ == <<"a", "-", "b">>
rows_ == <<"r", "o", "w", "s">>
pairs_ == <<"p", "a", "i", "r", "s">>
mixed_ == <<"m", "i", "x", "e", "d">>
Pair(m, n) == VList(<<VInt(m), VInt(n)>>)
Row(m, n) == VDict(<<Item(VStr(a_), VInt(m)), Item(VStr(b_), VInt(n))>>)

\* the variables the templates of the parameters are evaluated against: a
\* list of dicts, a list of lists, a list of a list and a scalar
ParameterVariables ==
    VDict(<<Item(VStr(rows_), VList(<<Row(1, 2), Row(3, 4)>>)),
            Item(VStr(pairs_), VList(<<Pair(1, 2), Pair(3, 4)>>)),
            Item(VStr(mixed_), VList(<<Pair(1, 2), VInt(7)>>))>>)

ParameterNames == {a_, b_, ab_}

\* inline lists (empty, of scalars, of rows, of a row of one value) and
\* templates (of a function call, of variables)
ParameterSources ==
    {VList(<<>>),
     VList(<<VInt(1), VInt(2)>>),
     VList(<<Pair(1, 2), Pair(3, 4), Pair(5, 6)>>),
     VList(<<VList(<<VInt(1)>>)>>),
     VStr(<<"$", "{", "g", "e", "n", "(", ")", "}">>),
     VStr(<<"$">> \o rows_),
     VStr(<<"$">> \o pairs_),
     VStr(<<"$">> \o mixed_)}

ParameterEntries == {VDict(<<Item(VStr(n), s)>>) : n \in ParameterNames, s \in ParameterSources}

ParametersIdle ==
    /\ check_variables_set = {} /\ prepared = VNone /\ variables_mapping = <<>>
    /\ ResolverIdle /\ CacheIdle /\ StepsIdle /\ SuiteIdle

InitParameters ==
    /\ pc = "parameters"
    /\ functions_mapping = UserFunctions
    /\ \E n \in 1..MaxParams : \E es \in [1..n -> ParameterEntries] : content = VList(es)
    /\ result = VNone
    /\ cached_functions_mapping = NoCache
    /\ ncalls = 0
    /\ ParametersIdle

\* parse_parameters(parameters, variables_mapping, functions_mapping)
ParsedParameters(o) ==
    /\ pc' = IF IsErr(o.val) THEN "raised" ELSE "done"
    /\ result' = o.val
    /\ cached_functions_mapping' = o.cache
    /\ ncalls' = o.calls
    /\ UNCHANGED <<functions_mapping, variables_mapping, prepareVars, resolverVars,
                   cacheVars, stepVars, suiteVars>>

ParseParameters ==
    /\ pc = "parameters"
    /\ ParsedParameters(parse_parameters(content, ParameterVariables, functions_mapping,
                                         cached_functions_mapping, ncalls))

NextParameters == ParseParameters

SpecParameters == InitParameters /\ [][NextParameters]_vars

\* the elements a source yields: those of an inline list, those of the
\* list a template evaluates to
SourceElements(source) ==
    IF source.k = "list" THEN source.v
    ELSE eval_lazy_data(source, ParameterVariables, UserFunctions, NoCache, 0).val.v

EntryNameOf(entry) == entry.v[1].key.v
EntrySource(entry) == entry.v[1].val

RECURSIVE ProductOfLengths(_)
ProductOfLengths(entries) ==
    IF Len(entries) = 0 THEN 1
    ELSE Len(SourceElements(EntrySource(entries[1]))) * ProductOfLengths(Tail(entries))

\* C11: for a list of entries whose sources yield the row lists L1..Ln,
\* parse_parameters returns |L1| x ... x |Ln| rows, also when two entries
\* have the same parameter name and when some Li is empty.
C11_ProductSize ==
    pc = "done" => Len(result.v) = ProductOfLengths(content.v)

\* the same for lists whose entries have different parameter names
C11_ProductSizeOfDistinctNames ==
    (pc = "done" /\ \A i, j \in 1..Len(content.v) :
                        i # j => EntryNameOf(content.v[i]) # EntryNameOf(content.v[j]))
        => Len(result.v) = ProductOfLengths(content.v)

\* the value the row of a source element has for the i-th of the names:
\* taken by position from a list, by key from a dict, the element itself
\* where it is a scalar under one name; none where the element has no such value
ExpectedCell(element, names, i) ==
    CASE element.k = "list" -> IF i <= Len(element.v) THEN element.v[i] ELSE VNone
      [] element.k = "dict" ->
            IF DictHas(element.v, VStr(names[i])) THEN DictGet(element.v, VStr(names[i]))
            ELSE VNone
      [] OTHER -> IF Len(names) = 1 THEN element ELSE VNone

RowIsOf(row, element, names) ==
    /\ KeyNames(row) = Range(names)
    /\ \A i \in 1..Len(names) :
          /\ ExpectedCell(element, names, i).k # "none"
          /\ DictGet(row.v, VStr(names[i])) = ExpectedCell(element, names, i)

\* C12: the rows parse_parameters builds for a parameter n1-...-nk (the rows
\* it returns for a list of that one parameter) have exactly the keys n1..nk,
\* the i-th row with the values of the i-th source element.
C12_RowsOfTheirElements ==
    (pc = "done" /\ Len(content.v) = 1) =>
        /\ Len(result.v) = Len(SourceElements(EntrySource(content.v[1])))
        /\ \A i \in 1..Len(result.v) :
              RowIsOf(result.v[i], SourceElements(EntrySource(content.v[1]))[i],
                      Split(EntryNameOf(content.v[1]), "-"))

----------------------------------------------------------------------------
(* get_mapping_function on the names a template can hold *)

\* names of user functions, reserved names, a framework helper, Python
\* built-ins, modules that parser.py imports, digits, a name that is no
\* expression, names unknown everywhere
FunctionNames ==
    {rand, sum_two, fst, gen} \cup ParameterizeNames \cup EnvironNames
        \cup PythonCallables \cup PythonNonCallables
        \cup {<<"1", "2">>, <<"1", "a">>, <<"z", "z">>, x_}

\* registries: the user functions, none, and two that register a user
\* function under a reserved name, a helper's name, a built-in's, a module's
FunctionsMappings ==
    {UserFunctions, NoFunctions,
     [n \in {<<"P">>, gen, <<"i", "d">>, <<"r", "e">>} |-> rand],
     [n \in {gen, <<"E", "N", "V">>, <<"z", "z">>} |-> sum_two]}

InitRegistry ==
    /\ pc = "lookup"
    /\ functions_mapping \in FunctionsMappings
    /\ content \in {VStr(n) : n \in FunctionNames}
    /\ result = VNone
    /\ cached_functions_mapping = NoCache
    /\ ncalls = 0
    /\ ParametersIdle

\* get_mapping_function(function_name, functions_mapping)
GetMappingFunction ==
    /\ pc = "lookup"
    /\ result' = get_mapping_function(content.v, functions_mapping)
    /\ pc' = IF IsErr(get_mapping_function(content.v, functions_mapping))
             THEN "raised" ELSE "done"
    /\ UNCHANGED <<functions_mapping, variables_mapping, prepareVars, resolverVars,
                   evalVars, cacheVars, stepVars, suiteVars>>

NextRegistry == GetMappingFunction

SpecRegistry == InitRegistry /\ [][NextRegistry]_vars

\* the callable the order of the claim finds for a name, none where no
\* step of it finds a callable
FirstHit(function_name, fm) ==
    IF function_name \in DOMAIN fm THEN VStr(fm[function_name])
    ELSE IF function_name \in ParameterizeNames THEN VStr(load_csv_file)
    ELSE IF function_name \in EnvironNames THEN VStr(get_os_environ)
    ELSE IF function_name \in built_in_functions \cup PythonCallables THEN VStr(function_name)
    ELSE VNone

\* C13: a name is resolved by the user functions, then the reserved names,
\* then the framework helpers, then Python's namespace, the first hit
\* winning; a name none of them resolves to a callable raises
\* FunctionNotFound, and nothing but a callable is ever returned.
C13_FirstHitOrFunctionNotFound ==
    pc # "lookup" =>
        IF FirstHit(content.v, functions_mapping).k = "none"
        THEN pc = "raised" /\ IsErrKind(result, "FunctionNotFound")
        ELSE pc = "done" /\ result = FirstHit(content.v, functions_mapping)

\* the half of C13 about the names that are resolved to a callable
C13_FirstHit ==
    (pc # "lookup" /\ FirstHit(content.v, functions_mapping).k # "none") =>
        pc = "done" /\ result.k = "str" /\ result = FirstHit(content.v, functions_mapping)

----------------------------------------------------------------------------
(* parse_validator on validators of every shape *)

\* the items a legacy validator is made of, any of them left out; check is
\* a string or a list of two
LegacyItems ==
    <<{Item(K_check, VStr(<<"x">>)), Item(K_check, Pair(1, 2))},
      {Item(K_comparator, VStr(<<"g", "t">>))},
      {Item(K_expect, VInt(1))},
      {Item(K_expected, VInt(2))},
      {Item(VStr(<<"j">>), VInt(0))}>>

RECURSIVE ItemChoices(_)
\* the dicts that take at most one item of each set, in order
ItemChoices(sets) ==
    IF Len(sets) = 0 THEN {<<>>}
    ELSE {h \o t : h \in {<<>>} \cup {<<it>> : it \in sets[1]}, t \in ItemChoices(Tail(sets))}

\* compact validators with lists of 0 to 3 entries, with a string and a
\* number in the place of the list; values that are no dict
Validators ==
    {VDict(d) : d \in ItemChoices(LegacyItems)}
        \cup {VDict(<<Item(K_eq, c)>>) :
                 c \in {VList(<<>>), VList(<<VStr(<<"x">>)>>), VList(<<VStr(<<"x">>), VInt(1)>>),
                        VList(<<VStr(<<"x">>), VInt(1), VInt(2)>>), VStr(<<"x", "y">>), VInt(5)}}
        \cup {Pair(1, 2), VStr(<<"x">>)}

InitValidator ==
    /\ pc = "validator"
    /\ functions_mapping = NoFunctions
    /\ content \in Validators
    /\ result = VNone
    /\ cached_functions_mapping = NoCache
    /\ ncalls = 0
    /\ ParametersIdle

\* parse_validator(validator)
ParseValidator ==
    /\ pc = "validator"
    /\ prepared' = parse_validator(content)
    /\ pc' = IF IsErr(parse_validator(content)) THEN "raised" ELSE "parsed"
    /\ UNCHANGED <<content, check_variables_set, result, functions_mapping, variables_mapping,
                   resolverVars, evalVars, cacheVars, stepVars, suiteVars>>

\* parse_validator of what parse_validator returned
ParseValidatorAgain ==
    /\ pc = "parsed"
    /\ result' = parse_validator(prepared)
    /\ pc' = IF IsErr(parse_validator(prepared)) THEN "raised again" ELSE "done"
    /\ UNCHANGED <<functions_mapping, variables_mapping, prepareVars, resolverVars,
                   evalVars, cacheVars, stepVars, suiteVars>>

NextValidator == ParseValidator \/ ParseValidatorAgain

SpecValidator == InitValidator /\ [][NextValidator]_vars

\* the two forms of the claim
IsLegacy(v) ==
    /\ v.k = "dict" /\ DictHas(v.v, K_check)
    /\ DictHas(v.v, K_expect) \/ DictHas(v.v, K_expected)
IsCompact(v) ==
    /\ v.k = "dict" /\ Len(v.v) = 1
    /\ v.v[1].val.k = "list" /\ Len(v.v[1].val.v) = 2

\* C14: parse_validator accepts the validators of the legacy and of the
\* compact form and raises ParamsError for every other one; what it returns
\* has exactly the keys check, comparator and expect, and parse_validator
\* applied to it succeeds and returns it again.
C14_Idempotent ==
    pc # "validator" =>
        /\ pc # "raised again"
        /\ pc = "raised" <=> ~(IsLegacy(content) \/ IsCompact(content))
        /\ pc = "raised" => IsErrKind(prepared, "ParamsError")
        /\ pc # "raised" =>
              /\ Len(prepared.v) = 3
              /\ KeyNames(prepared) = {K_check.v, K_comparator.v, K_expect.v}
        /\ pc = "done" => result = prepared

\* a legacy validator with expected and without a comparator has been
\* normalised, and normalised again
C14_Witness ==
    /\ pc = "done"
    /\ DictHas(content.v, K_expected) /\ ~DictHas(content.v, K_expect)
    /\ ~DictHas(content.v, K_comparator)
    /\ prepared # content
    /\ DictGet(prepared.v, K_comparator) = K_eq

----------------------------------------------------------------------------
(* _extend_with_testcase *)

UNDEFINED_NAME ==
    VStr(<<"U", "n", "d", "e", "f", "i", "n", "e", "d", " ", "n", "a", "m", "e">>)

\* d.update(other) for what a test's variables may hold: a dict, or a list
\* that dict.update takes for a sequence of pairs
UpdatedWith(items, other) ==
    IF other.k = "dict" THEN VDict(DictUpdate(items, other.v))
    ELSE IF other.k = "list" /\ Len(other.v) = 0 THEN VDict(items)
    ELSE Err("ValueError", <<>>)

\* testcase_def_dict["config"]["variables"]: the config's variables
\* updated with the test's
NestedVariables(test_dict, cfg) ==
    UpdatedWith(ensure_mapping_format(DictGetOr(cfg, K_variables, EmptyDict)).v,
                DictGetOr(test_dict, K_variables, EmptyDict))

\* if not testcase_def_dict["config"].get("base_url")
NestedBaseUrl(test_dict, cfg) ==
    IF ~Truthy(DictGetOr(cfg, K_base_url, VNone))
    THEN DictSet(cfg, K_base_url, DictGetOr(test_dict, K_base_url, VStr(<<>>)))
    ELSE cfg

\* test_dict.pop("name") or testcase_def_dict["config"].pop("name") or "Undefined name"
NestedName(test_dict, cfg) ==
    IF ~DictHas(test_dict, K_name) THEN Err("KeyError", K_name.v)
    ELSE IF Truthy(DictGet(test_dict, K_name)) THEN DictGet(test_dict, K_name)
    ELSE IF ~DictHas(cfg, K_name) THEN Err("KeyError", K_name.v)
    ELSE IF Truthy(DictGet(cfg, K_name)) THEN DictGet(cfg, K_name)
    ELSE UNDEFINED_NAME

\* what the test has left after variables, base_url and name are popped
PoppedTest(test_dict) ==
    DictWithout(DictWithout(DictWithout(test_dict, K_variables), K_base_url), K_name)

\* the config updated with the rest of the test, and named
NestedConfig(test_dict, cfg, test_name) ==
    IF IsErr(test_name) THEN test_name
    ELSE VDict(DictSet(DictUpdate(IF Truthy(DictGet(test_dict, K_name)) THEN cfg
                                  ELSE DictWithout(cfg, K_name),
                                  PoppedTest(test_dict)),
                       K_name, test_name))

NestedWithVariables(test_dict, testcase_def_dict, cfg, variables) ==
    IF IsErr(variables) THEN variables
    ELSE NestedConfig(test_dict,
                      NestedBaseUrl(test_dict, DictSet(cfg, K_variables, variables)),
                      NestedName(test_dict, cfg))

NestedTest(testcase_def_dict, cfg) ==
    IF IsErr(cfg) THEN cfg ELSE VDict(DictSet(testcase_def_dict, K_config, cfg))

\* _extend_with_testcase(test_dict, testcase_def_dict): test_dict as the
\* call leaves it, or the exception raised
extend_with_testcase(test_dict, testcase_def_dict) ==
    IF ~DictHas(testcase_def_dict.v, K_config) THEN Err("KeyError", K_config.v)
    ELSE NestedTest(testcase_def_dict.v,
                    NestedWithVariables(test_dict.v, testcase_def_dict.v,
                                        DictGet(testcase_def_dict.v, K_config).v,
                                        NestedVariables(test_dict.v,
                                                        DictGet(testcase_def_dict.v, K_config).v)))

\* a teststep that refers to a test case: without a name, with an empty
\* one, with a name; with and without variables, a base_url, another field
NestedSteps ==
    {VDict(nm \o vs \o bu \o ot) :
        nm \in {<<>>, <<Item(K_name, VStr(<<>>))>>, <<Item(K_name, VStr(<<"s">>))>>},
        vs \in {<<>>, <<Item(K_variables, VDict(<<Item(VStr(v_), VInt(2))>>))>>},
        bu \in {<<>>, <<Item(K_base_url, VStr(<<"h">>))>>},
        ot \in {<<>>, <<Item(K_weight, VInt(3))>>}}

\* the test case it refers to: its config without a name, with an empty
\* one, with a name; with and without variables and a base_url
NestedDefs ==
    {VDict(<<Item(K_config, VDict(nm \o vb)), Item(K_teststeps, TESTSTEPS)>>) :
        nm \in {<<>>, <<Item(K_name, VStr(<<>>))>>, <<Item(K_name, VStr(<<"c">>))>>},
        vb \in {<<>>, <<Item(K_variables, VDict(<<Item(VStr(v_), VInt(3))>>)),
                        Item(K_base_url, VStr(<<"d">>))>>}}

InitNested ==
    /\ pc = "extend"
    /\ functions_mapping = NoFunctions
    /\ content \in NestedSteps
    /\ config \in NestedDefs
    /\ result = VNone
    /\ cached_functions_mapping = NoCache
    /\ ncalls = 0
    /\ check_variables_set = {} /\ prepared = VNone /\ variables_mapping = <<>>
    /\ tests = <<>> /\ test_idx = 0 /\ session_variables = <<>>
    /\ prepared_testcase_tests = <<>>
    /\ ResolverIdle /\ CacheIdle /\ SuiteIdle

\* _extend_with_testcase(test_dict, testcase_def_dict)
ExtendWithTestcase ==
    /\ pc = "extend"
    /\ result' = extend_with_testcase(content, config)
    /\ pc' = IF IsErr(extend_with_testcase(content, config)) THEN "raised" ELSE "done"
    /\ UNCHANGED <<functions_mapping, variables_mapping, prepareVars, resolverVars,
                   evalVars, cacheVars, stepVars, suiteVars>>

NextNested == ExtendWithTestcase

SpecNested == InitNested /\ [][NextNested]_vars

NameOr(d, default) ==
    IF DictHas(d.v, K_name) /\ Truthy(DictGet(d.v, K_name)) THEN DictGet(d.v, K_name)
    ELSE default

\* C15: the name of the config the extension leaves is the step's name if
\* it has a non-empty one, else the nested config's if it has a non-empty
\* one, else "Undefined name"; a name is produced in all three cases, also
\* where the step or the config has no name key.
C15_Name ==
    pc # "extend" =>
        /\ pc = "done"
        /\ DictGet(DictGet(result.v, K_config).v, K_name)
              = NameOr(content, NameOr(DictGet(config.v, K_config), UNDEFINED_NAME))

\* the same for steps and configs that have a name key
C15_NameOfNamed ==
    (pc # "extend" /\ DictHas(content.v, K_name)
        /\ (Truthy(DictGet(content.v, K_name)) \/ DictHas(DictGet(config.v, K_config).v, K_name)))
    =>  /\ pc = "done"
        /\ DictGet(DictGet(result.v, K_config).v, K_name)
              = NameOr(content, NameOr(DictGet(config.v, K_config), UNDEFINED_NAME))

----------------------------------------------------------------------------
(* __prepare_testcase_tests on a teststep that references an API *)

STATUS == VStr(<<"s", "t", "a", "t", "u", "s">>)
Eq(check, expect) == VDict(<<Item(K_eq, VList(<<check, expect>>))>>)

\* no base_url and verify, one of them, both
ApiConfigs ==
    {VDict(b \o f) : b \in {<<>>, <<Item(K_base_url, VStr(<<"c">>))>>},
                     f \in {<<>>, <<Item(K_verify, VBool(FALSE))>>}}

\* API definitions with and without base_url, verify and times; the empty
\* base_url is one the definition has, and the url is plain or references
\* a variable of the definition
ApiDefs ==
    {VDict(<<Item(K_name, VStr(<<"d">>)),
             Item(K_variables, VDict(<<Item(VStr(n_), VInt(1))>>)),
             Item(K_request, VDict(<<Item(K_url, u)>>)),
             Item(K_validate, VList(<<Eq(STATUS, VInt(200))>>))>> \o b \o f \o x) :
        u \in {VStr(<<"/", "u">>), Url(n_)},
        b \in {<<>>, <<Item(K_base_url, VStr(<<"a">>))>>, <<Item(K_base_url, VStr(<<>>))>>},
        f \in {<<>>, <<Item(K_verify, VBool(TRUE))>>, <<Item(K_verify, VBool(FALSE))>>},
        x \in {<<>>, <<Item(K_times, VInt(5))>>}}

\* teststeps that reference an API, with and without a base_url, a times
\* and validators of their own
ApiSteps ==
    {VDict(<<Item(K_name, VStr(<<"s">>))>> \o b \o x \o c \o <<Item(K_api_def, a)>>) :
        b \in {<<>>, <<Item(K_base_url, VStr(<<"s">>))>>},
        x \in {<<>>, <<Item(K_times, VInt(2))>>},
        c \in {<<>>, <<Item(K_validate, VList(<<Eq(STATUS, VInt(201))>>))>>},
        a \in ApiDefs}

InitApi ==
    /\ pc = "config"
    /\ functions_mapping = UserFunctions
    /\ project_variables = <<>>
    /\ config \in ApiConfigs
    /\ tests \in {<<t>> : t \in ApiSteps}
    /\ test_idx = 0
    /\ session_variables = <<>>
    /\ prepared_testcase_tests = <<>>
    /\ check_variables_set = {}
    /\ content = VNone /\ prepared = VNone
    /\ variables_mapping = <<>>
    /\ result = VNone
    /\ cached_functions_mapping = NoCache
    /\ ncalls = 0
    /\ ResolverIdle /\ CacheIdle /\ SuiteIdleButProject

SpecApi == InitApi /\ [][NextCase]_vars

\* the API definition the teststep references
ApiOf(test_dict) == DictGet(test_dict.v, K_api_def)

\* the fields of an API definition that _extend_with_api does not name
OtherFields == {K_times}

\* C16: a field of the API definition that _extend_with_api does not name is
\* in the prepared teststep exactly when the teststep or the API definition
\* has it, with the teststep's value when the teststep has it and with the
\* API definition's value otherwise.
C16_StepKeepsItsFields ==
    (pc = "done" /\ test_idx = 1) =>
        \A f \in OtherFields :
            /\ DictHas(prepared_testcase_tests[1].v, f)
                  <=> (DictHas(tests[1].v, f) \/ DictHas(ApiOf(tests[1]).v, f))
            /\ DictHas(tests[1].v, f) =>
                  DictGet(prepared_testcase_tests[1].v, f) = DictGet(tests[1].v, f)
            /\ (~DictHas(tests[1].v, f) /\ DictHas(ApiOf(tests[1]).v, f)) =>
                  DictGet(prepared_testcase_tests[1].v, f) = DictGet(ApiOf(tests[1]).v, f)

\* the API definition's fields are copied into a teststep that lacks them
C16_CopiedWhenAbsent ==
    (pc = "done" /\ test_idx = 1) =>
        \A f \in OtherFields :
            /\ DictHas(prepared_testcase_tests[1].v, f)
                  <=> (DictHas(tests[1].v, f) \/ DictHas(ApiOf(tests[1]).v, f))
            /\ DictHas(ApiOf(tests[1]).v, f) =>
                  DictGet(prepared_testcase_tests[1].v, f) = DictGet(ApiOf(tests[1]).v, f)

\* the base_url the teststep has when the API definition has none
OwnBaseUrl(test_dict, cfg) ==
    IF Truthy(DictGetOr(test_dict.v, K_base_url, VNone)) THEN DictGet(test_dict.v, K_base_url)
    ELSE IF Truthy(DictGetOr(cfg.v, K_base_url, VStr(<<>>))) THEN DictGet(cfg.v, K_base_url)
    ELSE DictGetOr(test_dict.v, K_base_url, VNone)

----------------------------------------------------------------------------
(* parse_function_params on the argument texts of a function call *)

MaxFragments == 2

\* fragments the function pattern admits: a number, a name with blanks, a
\* keyword argument with and without blanks and value, one with two "=",
\* the empty fragment
ArgFragments ==
    {<<"1">>, <<" ", "x">>, <<"a", "=", "1">>, <<"b", " ", "=", " ", "$", "x">>,
     <<"a", "=">>, <<"a", "=", "b", "=", "c">>, <<>>}

ArgTexts == {Join(fs, <<",">>) : fs \in UNION {[1..n -> ArgFragments] : n \in 1..MaxFragments}}

InitParams ==
    /\ pc = "params"
    /\ content \in {VStr(t) : t \in ArgTexts}
    /\ result = VNone
    /\ functions_mapping = NoFunctions
    /\ cached_functions_mapping = NoCache
    /\ ncalls = 0
    /\ check_variables_set = {} /\ prepared = VNone /\ variables_mapping = <<>>
    /\ tests = <<>> /\ test_idx = 0 /\ session_variables = <<>>
    /\ prepared_testcase_tests = <<>> /\ config = VNone
    /\ ResolverIdle /\ CacheIdle /\ SuiteIdle

\* parse_function_params(params)
ParseFunctionParams ==
    /\ pc = "params"
    /\ result' = parse_function_params(content.v)
    /\ pc' = IF IsErr(parse_function_params(content.v)) THEN "raised" ELSE "done"
    /\ UNCHANGED <<functions_mapping, variables_mapping, prepareVars, resolverVars,
                   evalVars, cacheVars, stepVars, suiteVars>>

NextParams == ParseFunctionParams

SpecParams == InitParams /\ [][NextParams]_vars

HasEquals(arg) == \E i \in 1..Len(arg) : arg[i] = "="

\* the fragment cut once, at its first "="
KeyOf(arg) == Strip(SubSeq(arg, 1, Find(arg, <<"=">>, 1) - 1))
ValueOf(arg) == parse_string_value(Strip(SubSeq(arg, Find(arg, <<"=">>, 1) + 1, Len(arg))))

RECURSIVE ExpectedMeta(_, _)
\* the positional and the keyword arguments of the fragments, in order
ExpectedMeta(fragments, meta) ==
    IF Len(fragments) = 0 THEN meta
    ELSE ExpectedMeta(Tail(fragments),
            IF HasEquals(fragments[1])
            THEN [meta EXCEPT !.kwargs = DictSet(@, KeyOf(fragments[1]), ValueOf(fragments[1]))]
            ELSE [meta EXCEPT !.args = Append(@, parse_string_value(Strip(fragments[1])))])

ExpectedParams(params) ==
    IF Strip(params) = <<>> THEN EmptyMeta
    ELSE ExpectedMeta(Split(Strip(params), ","), EmptyMeta)

\* C20: parse_function_params raises on no argument text: every fragment
\* with a "=" is cut once, at its first "=", into a stripped key and a
\* stripped value and is a keyword argument, and every other fragment is a
\* positional argument, in order.
C20_SplitOnce ==
    pc # "params" => (pc = "done" /\ result = ExpectedParams(content.v))

\* the same holds of the fragments with at most one "="
C20_OfOneEquals ==
    (pc # "params"
       /\ \A i \in 1..Len(Split(content.v, ",")) : Len(Split(Split(content.v, ",")[i], "=")) <= 2)
        => (pc = "done" /\ result = ExpectedParams(content.v))

----------------------------------------------------------------------------
(* _extend_with_api on two teststeps that share one API definition *)

HOOK == VStr(<<"$", "{", "h", "(", ")", "}">>)

\* the items an API definition is made of
SharedApiItems ==
    <<{Item(K_name, VStr(<<"d">>))},
      {Item(K_variables, VDict(<<Item(VStr(n_), VInt(1))>>))},
      {Item(K_request, VDict(<<Item(K_url, VStr(<<"/", "u">>))>>))},
      {Item(K_validate, VList(<<Eq(STATUS, VInt(200))>>))},
      {Item(K_extract, VDict(<<Item(VStr(t_), JSON_PATH)>>))},
      {Item(K_setup_hooks, VList(<<HOOK>>))},
      {Item(K_base_url, VStr(<<"a">>))}>>

SharedApiDefs == {VDict(d) : d \in ItemChoices(SharedApiItems)}

\* teststeps with and without a name of their own
SharedApiSteps == {VDict(<<>>), VDict(<<Item(K_name, VStr(<<"s">>))>>)}

InitShared ==
    /\ pc = "extend"
    /\ functions_mapping = NoFunctions
    /\ content \in SharedApiDefs
    /\ config = content
    /\ tests \in [1..MaxSteps -> SharedApiSteps]
    /\ test_idx = 0
    /\ prepared_testcase_tests = <<>>
    /\ session_variables = <<>>
    /\ result = VNone
    /\ cached_functions_mapping = NoCache
    /\ ncalls = 0
    /\ check_variables_set = {} /\ prepared = VNone /\ variables_mapping = <<>>
    /\ ResolverIdle /\ CacheIdle /\ SuiteIdle

\* _extend_with_api(test_dict, api_def_dict) with the api_def_dict the call
\* before left: what the call has popped is gone from it
ExtendedWithApi(extended) ==
    /\ test_idx' = test_idx + 1
    /\ result' = extended
    /\ IF IsErr(extended)
       THEN pc' = "raised" /\ UNCHANGED <<config, prepared_testcase_tests>>
       ELSE /\ config' = VDict(ApiLeft(config.v))
            /\ prepared_testcase_tests' = Append(prepared_testcase_tests, extended)
            /\ pc' = IF test_idx + 1 >= Len(tests) THEN "done" ELSE "extend"
    /\ UNCHANGED <<tests, session_variables, functions_mapping, variables_mapping,
                   prepareVars, resolverVars, evalVars, cacheVars, suiteVars>>

ExtendWithApi ==
    /\ pc = "extend"
    /\ test_idx < Len(tests)
    /\ ExtendedWithApi(extend_with_api(tests[test_idx + 1], config))

NextShared == ExtendWithApi

SpecShared == InitShared /\ [][NextShared]_vars

\* C21: _extend_with_api leaves the API definition as it was given, and
\* every teststep extended with it, the first and the later ones, is the
\* teststep extended with the API definition as it was before any use.
C21_ApiDefinitionUnchanged ==
    /\ config = content
    /\ \A i \in 1..Len(prepared_testcase_tests) :
          prepared_testcase_tests[i] = extend_with_api(tests[i], content)

\* the first teststep is extended with the API definition as given, and the
\* base_url of the API definition is there for every later one
C21_FirstUse ==
    /\ Len(prepared_testcase_tests) > 0 =>
          prepared_testcase_tests[1] = extend_with_api(tests[1], content)
    /\ DictHas(content.v, K_base_url) =>
          \A i \in 1..Len(prepared_testcase_tests) :
              DictGet(prepared_testcase_tests[i].v, K_base_url) = DictGet(content.v, K_base_url)

----------------------------------------------------------------------------
(* _parse_testsuite on suites whose config has a variable that refers to itself *)

\* a suite whose v refers to itself, alone and in a list, a suite whose v
\* refers to another of its variables, a suite without variables
SelfSuiteConfigs ==
    {VDict(<<Item(K_variables, VDict(<<Item(VStr(v_), VStr(<<"$">> \o v_))>>))>>),
     VDict(<<Item(K_variables,
                  VDict(<<Item(VStr(v_), VList(<<VStr(<<"$">> \o v_), VInt(2)>>))>>))>>),
     VDict(<<Item(K_variables,
                  VDict(<<Item(VStr(v_), VStr(<<"$">> \o u_)), Item(VStr(u_), VInt(1))>>))>>),
     EmptyDict}

InitSelf ==
    /\ pc = "suite"
    /\ functions_mapping \in {UserFunctions, NoFunctions}
    /\ project_variables = <<>>
    /\ testsuite_config \in SelfSuiteConfigs
    /\ \E n \in 0..MaxCases : \E es \in [1..n -> Entries] :
          testcases = [i \in 1..n |-> Item(EntryName(i), es[i])]
    /\ testcase_idx = 0
    /\ parsed_testcase_list = <<>>
    /\ check_variables_set = {}
    /\ content = VNone /\ prepared = VNone
    /\ variables_mapping = <<>>
    /\ result = VNone
    /\ cached_functions_mapping = NoCache
    /\ ncalls = 0
    /\ ResolverIdle /\ CacheIdle /\ StepsIdle

SpecSelf == InitSelf /\ [][NextSuite]_vars

\* the registry the project does not have
OtherFunctions(fm) == IF DOMAIN fm = {} THEN UserFunctions ELSE NoFunctions

\* the first child of the suite, parsed with the functions fm; the suite's
\* config calls no function, and is prepared to the same with any functions
FirstChildWith(fm) ==
    ChildRound(testcases[1].key, testcases[1].val, testsuite_config,
               project_variables, fm, NoCache, 0).cases

\* C22: the first child of a suite is parsed to the same outcome,
\* VariableNotFound or the test cases with the variable as it stands,
\* whether the project's functions are empty or not.
C22_SameWithOtherFunctions ==
    (testcase_idx = 1 /\ pc \in {"testcases", "raised"}) =>
        /\ IsErr(FirstChildWith(OtherFunctions(functions_mapping))) <=> pc = "raised"
        /\ pc = "raised" => FirstChildWith(OtherFunctions(functions_mapping)) = result
        /\ pc = "testcases" =>
              FirstChildWith(OtherFunctions(functions_mapping)).v = parsed_testcase_list

\* the names of the suite's variables that refer to themselves
SelfReferring(cfg) ==
    {n \in KeyNames(DictGetOr(cfg.v, K_variables, EmptyDict)) :
        n \in extract_variables(DictGet(DictGet(cfg.v, K_variables).v, VStr(n)))}

\* the same outcome with the other functions where no variable of the suite
\* refers to itself
C22_SameWithoutSelfReference ==
    (testcase_idx = 1 /\ pc \in {"testcases", "raised"} /\ SelfReferring(testsuite_config) = {}) =>
        /\ IsErr(FirstChildWith(OtherFunctions(functions_mapping))) <=> pc = "raised"
        /\ pc = "raised" => FirstChildWith(OtherFunctions(functions_mapping)) = result
        /\ pc = "testcases" =>
              FirstChildWith(OtherFunctions(functions_mapping)).v = parsed_testcase_list

\* with a variable that refers to itself the functions decide: without
\* functions VariableNotFound, with functions the variable as it stands
C22_FunctionsDecide ==
    (testcase_idx = 1 /\ pc \in {"testcases", "raised"} /\ SelfReferring(testsuite_config) # {}) =>
        IF DOMAIN functions_mapping = {}
        THEN pc = "raised" /\ IsErrKind(result, "VariableNotFound")
        ELSE pc = "testcases"

====
